---- MODULE Spec2Model ----
(***************************************************************************)
(* A model of nasa_port: the QueryBuilder (builder/query_builder.py), the  *)
(* spatial predicate generator (builder/spatial.py) and url_encode_query   *)
(* (builder/utils.py).  Python strings are TLA+ strings, lists are         *)
(* sequences, and every method of the builder is an operator on the        *)
(* builder's state record plus one action that applies it.                 *)
(***************************************************************************)
EXTENDS Integers, Sequences, FiniteSets, TLC

VARIABLES
    qb,        \* the QueryBuilder instance: one field per attribute set in __init__
    cmut,      \* name of the last condition call made on the builder ("" if none)
    arg,       \* the condition string that call was given or computed
    prevLen,   \* len(_where_conditions) just before that call
    result,    \* what the last build()/to_url_encoded() returned or raised, if no
               \* mutator was called since
    nbuilds,   \* how many build() calls in a row returned it (counted up to 2)
    failed,    \* whether build() failed and only select/from_table were called
               \* since, with the other clauses as they were at that failure
    lists,     \* the list objects the caller holds: their contents
    refs,      \* which of them _select_columns / _group_by_columns is (0: a list
               \* of the builder's own)
    coords,       \* the vertex list the caller is putting together for polygon
    constraint,   \* what the last polygon(coords) returned or raised
    transform_rules,  \* DataTransformer.transform_rules
    records,      \* the records the caller passes to transform_record / transform_batch
    transformed   \* what that call returned or raised, and the calls of
                  \* rule.transform_func it made

builderVars == <<qb, cmut, arg, prevLen, result, nbuilds, failed>>
callerVars == <<lists, refs>>
spatialVars == <<coords, constraint>>
transformVars == <<transform_rules, records, transformed>>
vars == <<qb, cmut, arg, prevLen, result, nbuilds, failed, lists, refs,
          coords, constraint, transform_rules, records, transformed>>

(***************************************************************************)
(* Bounds                                                                  *)
(***************************************************************************)
\* The longest condition list the appending calls may build.
MaxConds == 2

(***************************************************************************)
(* Python strings                                                          *)
(***************************************************************************)
\* str.startswith
StartsWith(s, p) == Len(s) >= Len(p) /\ SubSeq(s, 1, Len(p)) = p

\* s[n:]
Drop(s, n) == SubSeq(s, n + 1, Len(s))

\* sub in s
Contains(s, sub) ==
    \E i \in 1..(Len(s) - Len(sub) + 1) : SubSeq(s, i, i + Len(sub) - 1) = sub

\* s.find(sub) + 1: the 1-based index of the first occurrence, 0 if there is none
Find(s, sub) ==
    IF Contains(s, sub)
    THEN CHOOSE i \in 1..(Len(s) - Len(sub) + 1) :
            /\ SubSeq(s, i, i + Len(sub) - 1) = sub
            /\ \A j \in 1..(i - 1) : SubSeq(s, j, j + Len(sub) - 1) # sub
    ELSE 0

\* s.count(sub) for the non-overlapping occurrences the tokens used here have
CountOf(s, sub) ==
    Cardinality({i \in 1..(Len(s) - Len(sub) + 1) : SubSeq(s, i, i + Len(sub) - 1) = sub})

RECURSIVE Join(_, _)
\* sep.join(parts)
Join(sep, parts) ==
    IF parts = <<>> THEN ""
    ELSE IF Len(parts) = 1 THEN parts[1]
    ELSE parts[1] \o sep \o Join(sep, Tail(parts))

RECURSIVE Cat(_, _, _)
\* ''.join(f[lo..hi]), by halves
Cat(f, lo, hi) ==
    IF lo > hi THEN ""
    ELSE IF lo = hi THEN f[lo]
    ELSE LET mid == (lo + hi) \div 2
         IN  Cat(f, lo, mid) \o Cat(f, mid + 1, hi)

\* s.replace(old, new) for a one-character old
Replace(s, old, new) ==
    Cat([i \in 1..Len(s) |-> IF SubSeq(s, i, i) = old THEN new ELSE SubSeq(s, i, i)],
        1, Len(s))

Digits == "0123456789"

RECURSIVE NatStr(_)
NatStr(n) ==
    IF n < 10 THEN SubSeq(Digits, n + 1, n + 1)
    ELSE NatStr(n \div 10) \o SubSeq(Digits, (n % 10) + 1, (n % 10) + 1)

\* str(n) of an int
IntStr(n) == IF n < 0 THEN "-" \o NatStr(-n) ELSE NatStr(n)

\* str(x) of a float with one decimal digit, given in tenths: 18 is 1.8, 20 is 2.0
FloatStr(tenths) ==
    LET a == IF tenths < 0 THEN -tenths ELSE tenths
    IN  (IF tenths < 0 THEN "-" ELSE "") \o NatStr(a \div 10) \o "." \o NatStr(a % 10)

\* Python values that are formatted into conditions
PyStrV(s) == [t |-> "str", s |-> s]
PyInt(i) == [t |-> "int", i |-> i]
PyFloat(tenths) == [t |-> "float", tenths |-> tenths]

\* f"{value}" / str(value)
PyFormat(v) ==
    IF v.t = "str" THEN v.s
    ELSE IF v.t = "int" THEN IntStr(v.i)
    ELSE FloatStr(v.tenths)

(***************************************************************************)
(* urllib.parse.quote and url_encode_query                                 *)
(***************************************************************************)
\* ASCII 32..95 and 97..126 in code order
AsciiLo == " !\"#$%&'()*+,-./0123456789:;<=>?@ABCDEFGHIJKLMNOPQRSTUVWXYZ[\\]^_"
AsciiHi == "abcdefghijklmnopqrstuvwxyz{|}~"

\* ord(ch)
Ord(ch) ==
    IF Contains(AsciiLo, ch) THEN 31 + Find(AsciiLo, ch)
    ELSE 96 + Find(AsciiHi, ch)

HexDigits == "0123456789ABCDEF"

\* '%{:02X}'.format(ord(ch))
PercentHex(ch) ==
    LET n == Ord(ch)
    IN  "%" \o SubSeq(HexDigits, (n \div 16) + 1, (n \div 16) + 1)
            \o SubSeq(HexDigits, (n % 16) + 1, (n % 16) + 1)

\* urllib.parse._ALWAYS_SAFE
AlwaysSafe == "ABCDEFGHIJKLMNOPQRSTUVWXYZabcdefghijklmnopqrstuvwxyz0123456789_.-~"

\* urllib.parse.quote(s, safe=safe)
quote(s, safe) ==
    Cat([i \in 1..Len(s) |->
            LET ch == SubSeq(s, i, i)
            IN  IF Contains(AlwaysSafe, ch) \/ Contains(safe, ch) THEN ch
                ELSE PercentHex(ch)],
        1, Len(s))

\* utils.url_encode_query
url_encode_query(query) == quote(Replace(query, " ", "+"), "+,=")

(***************************************************************************)
(* SpatialConstraints                                                      *)
(***************************************************************************)
circle(ra, dec, radius, coordinate_system) ==
    "contains(point('" \o coordinate_system \o "',ra,dec),circle('" \o coordinate_system
        \o "'," \o PyFormat(ra) \o "," \o PyFormat(dec) \o "," \o PyFormat(radius) \o "))=1"

box(ra, dec, width, height, coordinate_system) ==
    "contains(point('" \o coordinate_system \o "',ra,dec),box('" \o coordinate_system
        \o "'," \o PyFormat(ra) \o "," \o PyFormat(dec) \o "," \o PyFormat(width)
        \o "," \o PyFormat(height) \o "))=1"

(***************************************************************************)
(* Optional values and enums                                               *)
(***************************************************************************)
\* Optional[str] = None / a string; Optional[int] = None / an int
None == [set |-> FALSE, val |-> ""]
NoneInt == [set |-> FALSE, val |-> 0]
Some(v) == [set |-> TRUE, val |-> v]

\* bool(x) of an Optional[str] and of an Optional[int]
TruthyStr(o) == o.set /\ o.val # ""
TruthyInt(o) == o.set /\ o.val # 0

\* models.TableName.PLANETARY_SYSTEMS and models.DiscoveryMethod.TRANSIT
PLANETARY_SYSTEMS == [t |-> "TableName", value |-> "ps"]
TRANSIT == [t |-> "DiscoveryMethod", value |-> "Transit"]

(***************************************************************************)
(* QueryBuilder: every method as an operator on the instance               *)
(***************************************************************************)
\* QueryBuilder.__init__
QueryBuilder ==
    [select_columns   |-> <<>>,
     from_table       |-> None,
     where_conditions |-> <<>>,
     order_by_clause  |-> None,
     limit_count      |-> NoneInt,
     group_by_columns |-> <<>>,
     having_condition |-> None]

select(self, columns) ==
    IF columns.t = "str"
    THEN IF columns.s = "*"
         THEN [self EXCEPT !.select_columns = <<"*">>]
         ELSE [self EXCEPT !.select_columns = <<columns.s>>]
    ELSE [self EXCEPT !.select_columns = columns.l]

from_table(self, table) ==
    IF table.t = "TableName"
    THEN [self EXCEPT !.from_table = Some(table.value)]
    ELSE [self EXCEPT !.from_table = Some(table.s)]

\* where that appends instead of replacing
where_appends(self, condition) ==
    [self EXCEPT !.where_conditions = Append(@, condition)]

where(self, condition) ==
    [self EXCEPT !.where_conditions = <<condition>>]

\* and_where that stores the first condition without its prefix
and_where_first_plain(self, condition) ==
    IF self.where_conditions = <<>>
    THEN [self EXCEPT !.where_conditions = <<condition>>]
    ELSE [self EXCEPT !.where_conditions = Append(@, "AND " \o condition)]

\* and_where that appends the condition as given
and_where_no_prefix(self, condition) ==
    [self EXCEPT !.where_conditions = Append(@, condition)]

and_where(self, condition) ==
    [self EXCEPT !.where_conditions = Append(@, "AND " \o condition)]

or_where(self, condition) ==
    [self EXCEPT !.where_conditions = Append(@, "OR " \o condition)]

where_between(self, column, min_value, max_value) ==
    LET condition == column \o " between " \o PyFormat(min_value) \o " and "
                        \o PyFormat(max_value)
    IN  IF self.where_conditions # <<>> THEN and_where(self, condition)
        ELSE where(self, condition)

RECURSIVE FormatValues(_)
\* the formatted_values loop of where_in
FormatValues(values) ==
    IF values = <<>> THEN <<>>
    ELSE <<IF Head(values).t = "str" THEN "'" \o Head(values).s \o "'"
           ELSE PyFormat(Head(values))>> \o FormatValues(Tail(values))

where_in(self, column, values) ==
    LET values_str == Join(",", FormatValues(values))
        condition == column \o " in (" \o values_str \o ")"
    IN  IF self.where_conditions # <<>> THEN and_where(self, condition)
        ELSE where(self, condition)

\* where_like that always calls where
where_like_replaces(self, column, pattern, case_insensitive) ==
    LET condition == IF case_insensitive
                     THEN "upper(" \o column \o ") like upper('" \o pattern \o "')"
                     ELSE column \o " like '" \o pattern \o "'"
    IN  [self EXCEPT !.where_conditions = <<condition>>]

where_like(self, column, pattern, case_insensitive) ==
    LET condition == IF case_insensitive
                     THEN "upper(" \o column \o ") like upper('" \o pattern \o "')"
                     ELSE column \o " like '" \o pattern \o "'"
    IN  IF self.where_conditions # <<>> THEN and_where(self, condition)
        ELSE where(self, condition)

where_confirmed(self) == where_like(self, "soltype", "%CONF%", TRUE)

where_candidates(self) == where_like(self, "soltype", "%CAND%", TRUE)

where_discovery_method(self, method) ==
    LET method_str == IF method.t = "DiscoveryMethod" THEN method.value ELSE method.s
        condition == "discoverymethod = '" \o method_str \o "'"
    IN  IF self.where_conditions # <<>> THEN and_where(self, condition)
        ELSE where(self, condition)

where_default_flag(self) ==
    LET condition == "default_flag=1"
    IN  IF self.where_conditions # <<>> THEN and_where(self, condition)
        ELSE where(self, condition)

where_has_mass(self) ==
    LET condition == "pl_masse > 0"
    IN  IF self.where_conditions # <<>> THEN and_where(self, condition)
        ELSE where(self, condition)

where_has_radius(self) ==
    LET condition == "pl_rade > 0"
    IN  IF self.where_conditions # <<>> THEN and_where(self, condition)
        ELSE where(self, condition)

where_earth_sized(self, max_radius) ==
    LET condition == "pl_rade <= " \o PyFormat(max_radius)
    IN  IF self.where_conditions # <<>> THEN and_where(self, condition)
        ELSE where(self, condition)

where_spatial_circle(self, ra, dec, radius) ==
    LET spatial_constraint == circle(ra, dec, radius, "icrs")
    IN  IF self.where_conditions # <<>> THEN and_where(self, spatial_constraint)
        ELSE where(self, spatial_constraint)

where_spatial_box(self, ra, dec, width, height) ==
    LET spatial_constraint == box(ra, dec, width, height, "icrs")
    IN  IF self.where_conditions # <<>> THEN and_where(self, spatial_constraint)
        ELSE where(self, spatial_constraint)

order_by(self, column, ascending) ==
    LET direction == IF ascending THEN "ASC" ELSE "DESC"
    IN  [self EXCEPT !.order_by_clause = Some("ORDER BY " \o column \o " " \o direction)]

limit(self, count) ==
    [self EXCEPT !.limit_count = Some(count)]

group_by(self, columns) ==
    IF columns.t = "str"
    THEN [self EXCEPT !.group_by_columns = <<columns.s>>]
    ELSE [self EXCEPT !.group_by_columns = columns.l]

having(self, condition) ==
    [self EXCEPT !.having_condition = Some(condition)]

count(self, column) ==
    [self EXCEPT !.select_columns = <<"count(" \o column \o ") as count">>]

distinct(self, columns) ==
    LET cols == IF columns.t = "str" THEN <<columns.s>> ELSE columns.l
        distinct_cols == [i \in 1..Len(cols) |->
                            IF i = 1 THEN "distinct(" \o cols[i] \o ")" ELSE cols[i]]
    IN  [self EXCEPT !.select_columns = distinct_cols]

\* What a call returns or raises
Ok(v) == [kind |-> "ok", value |-> v]
Raise(e) == [kind |-> "error", value |-> e]

\* The WHERE block with the prefix stripped from every stored element
WherePart_strips_all(self) ==
    LET strip(c) == IF StartsWith(c, "AND ") THEN Drop(c, 4)
                    ELSE IF StartsWith(c, "OR ") THEN Drop(c, 3)
                    ELSE c
    IN  IF self.where_conditions # <<>>
        THEN <<"WHERE " \o Join(" ", [i \in 1..Len(self.where_conditions) |->
                                        strip(self.where_conditions[i])])>>
        ELSE <<>>

\* The WHERE block emitted only when there is more than one stored condition
WherePart_needs_two(self) ==
    IF Len(self.where_conditions) > 1
    THEN <<"WHERE " \o (IF StartsWith(self.where_conditions[1], "AND ")
                         THEN Drop(self.where_conditions[1], 4)
                         ELSE IF StartsWith(self.where_conditions[1], "OR ")
                         THEN Drop(self.where_conditions[1], 3)
                         ELSE self.where_conditions[1]) \o " "
             \o Join(" ", Tail(self.where_conditions))>>
    ELSE <<>>

\* The WHERE block of build(): the query parts it adds
WherePart(self) ==
    IF self.where_conditions # <<>>
    THEN LET stored == self.where_conditions[1]
             first_condition ==
                IF StartsWith(stored, "AND ") THEN Drop(stored, 4)
                ELSE IF StartsWith(stored, "OR ") THEN Drop(stored, 3)
                ELSE stored
             where_clause ==
                IF Len(self.where_conditions) > 1
                THEN first_condition \o " " \o Join(" ", Tail(self.where_conditions))
                ELSE first_condition
         IN  <<"WHERE " \o where_clause>>
    ELSE <<>>

\* The SELECT part that leaves the limit out
SelectPart_no_top(self) ==
    <<"SELECT " \o Join(",", self.select_columns)>>

\* The SELECT part of build(), with TOP when a limit is set
SelectPart(self) ==
    LET select_str == Join(",", self.select_columns)
    IN  IF TruthyInt(self.limit_count)
        THEN <<"SELECT TOP " \o IntStr(self.limit_count.val) \o " " \o select_str>>
        ELSE <<"SELECT " \o select_str>>

\* The blocks with ORDER BY emitted before GROUP BY and HAVING
TailParts_order_first(self) ==
    (IF TruthyStr(self.order_by_clause)
     THEN <<self.order_by_clause.val>> ELSE <<>>)
    \o (IF self.group_by_columns # <<>>
        THEN <<"GROUP BY " \o Join(",", self.group_by_columns)>> ELSE <<>>)
    \o (IF TruthyStr(self.having_condition)
        THEN <<"HAVING " \o self.having_condition.val>> ELSE <<>>)

\* The GROUP BY, HAVING and ORDER BY blocks of build()
TailParts(self) ==
    (IF self.group_by_columns # <<>>
     THEN <<"GROUP BY " \o Join(",", self.group_by_columns)>> ELSE <<>>)
    \o (IF TruthyStr(self.having_condition)
        THEN <<"HAVING " \o self.having_condition.val>> ELSE <<>>)
    \o (IF TruthyStr(self.order_by_clause)
        THEN <<self.order_by_clause.val>> ELSE <<>>)

\* The FROM part emitted once for every selected column
FromPart_per_column(self) ==
    [i \in 1..Len(self.select_columns) |-> "FROM " \o self.from_table.val]

\* The FROM part of build()
FromPart(self) ==
    <<"FROM " \o self.from_table.val>>

\* build without the check of the table
build_unchecked_table(self) ==
    IF self.select_columns = <<>>
    THEN Raise("ValueError: SELECT columns must be specified")
    ELSE LET query_parts == SelectPart(self)
                            \o FromPart(self)
                            \o WherePart(self)
                            \o TailParts(self)
         IN  Ok(Join(" ", query_parts))

\* QueryBuilder.build: the string returned or the error raised
build(self) ==
    IF self.select_columns = <<>>
    THEN Raise("ValueError: SELECT columns must be specified")
    ELSE IF ~TruthyStr(self.from_table)
    THEN Raise("ValueError: FROM table must be specified")
    ELSE LET query_parts == SelectPart(self)
                            \o FromPart(self)
                            \o WherePart(self)
                            \o TailParts(self)
         IN  Ok(Join(" ", query_parts))

\* build that resets the builder when it raises
build_state_resets(self) ==
    IF self.select_columns = <<>> \/ ~TruthyStr(self.from_table) THEN QueryBuilder ELSE self

\* build that writes the stripped first condition back into the list
build_state_strips(self) ==
    IF self.select_columns = <<>> \/ ~TruthyStr(self.from_table) \/ self.where_conditions = <<>>
    THEN self
    ELSE LET stored == self.where_conditions[1]
             first_condition ==
                IF StartsWith(stored, "AND ") THEN Drop(stored, 4)
                ELSE IF StartsWith(stored, "OR ") THEN Drop(stored, 3)
                ELSE stored
         IN  [self EXCEPT !.where_conditions[1] = first_condition]

\* QueryBuilder.build: the instance after the call (build assigns no attribute)
build_state(self) == self

\* QueryBuilder.to_url_encoded
to_url_encoded(self) ==
    LET query == build(self)
    IN  IF query.kind = "ok" THEN Ok(Replace(query.value, " ", "+")) ELSE query

(***************************************************************************)
(* The inputs the calls are given                                          *)
(***************************************************************************)
\* select(columns): the wildcard as a str, a list of names, the empty list
SelectInputs ==
    { [t |-> "str", s |-> "*"],
      [t |-> "list", l |-> <<"pl_name", "pl_masse">>],
      [t |-> "list", l |-> <<>>] }

\* from_table(table): a TableName member or its value as a str
TableInputs == { PLANETARY_SYSTEMS, [t |-> "str", s |-> "ps"] }

\* where / and_where / or_where(condition): raw fragments, one of which itself
\* begins with a boolean operator
Conditions == { "a>1", "AND b<2" }

\* where_discovery_method(method): a DiscoveryMethod member or a str
MethodInputs == { TRANSIT, [t |-> "str", s |-> "Transit"] }

\* group_by(columns)
GroupInputs == { [t |-> "str", s |-> "disc_year"], [t |-> "list", l |-> <<"disc_year">>] }

\* limit(count)
LimitInputs == { 0, 5, 10 }

(***************************************************************************)
(* The values of record fields, and the str methods, the regular           *)
(* expressions and the float() / int() parsing DataTransformer uses        *)
(***************************************************************************)
\* Python values: None, str, int, float (kept in thousandths), bool
NoneV == [t |-> "None", s |-> "", n |-> 0]
StrV(s) == [t |-> "str", s |-> s, n |-> 0]
IntV(n) == [t |-> "int", s |-> "", n |-> n]
FloatV(milli) == [t |-> "float", s |-> "", n |-> milli]
BoolV(b) == [t |-> "bool", s |-> "", n |-> IF b THEN 1 ELSE 0]

\* A call returned v / raised
Returned(v) == [kind |-> "ok", value |-> v]
Raised(e) == [kind |-> "error", value |-> StrV(e)]

UpperAlpha == "ABCDEFGHIJKLMNOPQRSTUVWXYZ"
LowerAlpha == "abcdefghijklmnopqrstuvwxyz"
Whitespace == " \t\n\r"

\* s[i]
CharAt(s, i) == SubSeq(s, i, i)

\* The lower-case letter of every upper-case letter
LowerTable ==
    [c \in { CharAt(UpperAlpha, i) : i \in 1..Len(UpperAlpha) } |->
        CharAt(LowerAlpha, Find(UpperAlpha, c))]

\* c.lower() of one character
LowerChar(c) == IF c \in DOMAIN LowerTable THEN LowerTable[c] ELSE c

\* str.lower
Lower(s) == Cat([i \in 1..Len(s) |-> LowerChar(CharAt(s, i))], 1, Len(s))

\* s from the first to the last of the positions in keep
Span(s, keep) ==
    IF keep = {} THEN ""
    ELSE SubSeq(s, CHOOSE i \in keep : \A j \in keep : i <= j,
                   CHOOSE i \in keep : \A j \in keep : i >= j)

\* s.strip(chars)
StripChars(s, chars) == Span(s, {i \in 1..Len(s) : ~Contains(chars, CharAt(s, i))})

\* s.strip()
Strip(s) == StripChars(s, Whitespace)

\* The characters \w matches in ASCII text
WordChars ==
    { CharAt(UpperAlpha \o LowerAlpha \o Digits \o "_", i) :
        i \in 1..Len(UpperAlpha \o LowerAlpha \o Digits \o "_") }

\* \w on ASCII text
IsWordChar(c) == c \in WordChars

\* re.sub(r'[^\w]', '_', s)
SubNonWord(s) ==
    Cat([i \in 1..Len(s) |-> IF IsWordChar(CharAt(s, i)) THEN CharAt(s, i) ELSE "_"],
        1, Len(s))

\* re.sub(r'__', '_', s): pairs of underscores, not runs
SubUnderscoreRuns_pairs(s) == Replace(s, "__", "_")

\* re.sub(r'_+', '_', s)
SubUnderscoreRuns(s) ==
    Cat([i \in 1..Len(s) |->
            IF CharAt(s, i) = "_" /\ i > 1 /\ CharAt(s, i - 1) = "_" THEN "" ELSE CharAt(s, i)],
        1, Len(s))

\* A digit group as float() and int() accept it: digits, single underscores
\* between them
IsDigitGroup(g) ==
    /\ g # ""
    /\ \A i \in 1..Len(g) : Contains(Digits, CharAt(g, i)) \/ CharAt(g, i) = "_"
    /\ CharAt(g, 1) # "_"
    /\ CharAt(g, Len(g)) # "_"
    /\ ~Contains(g, "__")

RECURSIVE Pow10(_)
Pow10(k) == IF k <= 0 THEN 1 ELSE 10 * Pow10(k - 1)

RECURSIVE GroupValue(_)
\* The number a digit group stands for
GroupValue(g) ==
    IF g = "" THEN 0
    ELSE IF CharAt(g, Len(g)) = "_" THEN GroupValue(SubSeq(g, 1, Len(g) - 1))
    ELSE 10 * GroupValue(SubSeq(g, 1, Len(g) - 1)) + (Find(Digits, CharAt(g, Len(g))) - 1)

\* The digits of a group
GroupDigits(g) == Replace(g, "_", "")

\* A string without its sign, and the sign
Unsigned(s) == IF StartsWith(s, "+") \/ StartsWith(s, "-") THEN Drop(s, 1) ELSE s
SignOf(s) == IF StartsWith(s, "-") THEN -1 ELSE 1

\* The part of s before / after position i, the whole of s / nothing if i is 0
Before(s, i) == IF i > 0 THEN SubSeq(s, 1, i - 1) ELSE s
After(s, i) == IF i > 0 THEN Drop(s, i) ELSE ""

\* int(), given the stripped string
IntOfStripped(t) ==
    IF IsDigitGroup(Unsigned(t))
    THEN Returned(IntV(SignOf(t) * GroupValue(Unsigned(t))))
    ELSE Raised("ValueError: invalid literal for int()")

\* int(s): the int, or ValueError
ParseInt(s) == IntOfStripped(Strip(s))

\* digits * 10^shift, in whole thousandths
Scaled(digits, shift) ==
    IF shift >= 0 THEN digits * Pow10(shift) ELSE digits \div Pow10(-shift)

\* float(), given the sign, the integer and fraction digits and the exponent
FloatOfParts(sign, ip, fp, hasExp, expo) ==
    IF /\ ip # "" \/ fp # ""
       /\ ip = "" \/ IsDigitGroup(ip)
       /\ fp = "" \/ IsDigitGroup(fp)
       /\ ~hasExp \/ IsDigitGroup(Unsigned(expo))
    THEN Returned(FloatV(sign * Scaled(
            GroupValue(ip) * Pow10(Len(GroupDigits(fp))) + GroupValue(fp),
            3 - Len(GroupDigits(fp))
              + (IF hasExp THEN SignOf(expo) * GroupValue(Unsigned(expo)) ELSE 0))))
    ELSE Raised("ValueError: could not convert string to float")

\* float(), given the sign, the mantissa and the exponent
FloatOfMantissa(sign, mant, hasExp, expo) ==
    FloatOfParts(sign, Before(mant, Find(mant, ".")), After(mant, Find(mant, ".")),
                 hasExp, expo)

\* float(), given the sign and the rest, e being the place of the exponent marker
FloatOfBody(sign, body, e) ==
    FloatOfMantissa(sign, Before(body, e), e > 0, After(body, e))

\* float(), given the stripped string.  inf and nan are floats too; they are kept
\* as the float of that name
FloatOfStripped(t) ==
    IF Lower(Unsigned(t)) \in {"inf", "infinity", "nan"}
    THEN Returned([t |-> "float", s |-> Lower(Unsigned(t)), n |-> SignOf(t)])
    ELSE FloatOfBody(SignOf(t), Unsigned(t), Find(Lower(Unsigned(t)), "e"))

\* float(s): the float, or ValueError
ParseFloat(s) == FloatOfStripped(Strip(s))

\* repr of a float kept in thousandths: 2300 is 2.3, 100000000 is 100000.0
MilliStr(milli) ==
    LET a == IF milli < 0 THEN -milli ELSE milli
        f == (IF milli < 0 THEN -milli ELSE milli) % 1000
    IN  (IF milli < 0 THEN "-" ELSE "") \o NatStr(a \div 1000) \o "."
        \o (IF f = 0 THEN "0"
            ELSE IF f % 100 = 0 THEN NatStr(f \div 100)
            ELSE IF f % 10 = 0 THEN (IF f < 100 THEN "0" ELSE "") \o NatStr(f \div 10)
            ELSE (IF f < 10 THEN "00" ELSE IF f < 100 THEN "0" ELSE "") \o NatStr(f))

\* str(value)
StrOf(v) ==
    CASE v.t = "None" -> "None"
      [] v.t = "str" -> v.s
      [] v.t = "int" -> IntStr(v.n)
      [] v.t = "float" -> IF v.s # "" THEN v.s ELSE MilliStr(v.n)
      [] v.t = "bool" -> IF v.n = 1 THEN "True" ELSE "False"
      [] v.t = "datetime" -> v.s

(***************************************************************************)
(* DataTransformer                                                         *)
(***************************************************************************)
\* DataTransformer._normalize_column_name
normalize_column_name(name) ==
    IF name.t # "str" THEN StrV(StrOf(name))
    ELSE StrV(StripChars(SubUnderscoreRuns(SubNonWord(Lower(name.s))), "_"))

\* The set null_values of _handle_nulls
null_values == {"", "null", "NULL", "nan", "NaN", "N/A", "n/a", "-", "--"}

\* _handle_nulls with a null_values set that lacks the empty string
handle_nulls_without_empty(value) ==
    IF value.t = "None" THEN NoneV
    ELSE IF value.t = "str" /\ Strip(value.s) \in (null_values \ {""}) THEN NoneV
    ELSE value

\* DataTransformer._handle_nulls
handle_nulls(value) ==
    IF value.t = "None" THEN NoneV
    ELSE IF value.t = "str" /\ Strip(value.s) \in null_values THEN NoneV
    ELSE value

\* DataTransformer._is_numeric_string: float(value) does not raise
is_numeric_string(value) ==
    IF value.t = "str" THEN ParseFloat(value.s).kind = "ok"
    ELSE value.t # "None"

\* _convert_numeric: return int(value) / float(value), except ValueError: return value
NumberOr(parsed, value) == IF parsed.kind = "ok" THEN parsed.value ELSE StrV(value)

\* _convert_numeric, from value = value.strip() on
ConvertStripped(value) ==
    IF value = "" THEN NoneV
    ELSE NumberOr(IF ~Contains(value, ".") /\ ~Contains(Lower(value), "e")
                  THEN ParseInt(value)
                  ELSE ParseFloat(value),
                  value)

\* DataTransformer._convert_numeric
convert_numeric(value) ==
    IF value.t # "str" THEN value ELSE ConvertStripped(Strip(value.s))

\* datetime, kept as str(datetime) gives it
DateV(s) == [t |-> "datetime", s |-> s, n |-> 0]

\* n in decimal, zero-padded to width digits
ZeroPad(n, width) == SubSeq("0000", 1, width - Len(NatStr(n))) \o NatStr(n)

\* What strptime has parsed; the defaults of _strptime for fields not in the format
NoFields == [ok |-> TRUE, Y |-> 1900, m |-> 1, d |-> 1, H |-> 0, M |-> 0, S |-> 0]
NoMatch == [NoFields EXCEPT !.ok = FALSE]

\* A text is one or more digits
IsDigits(text) ==
    text # "" /\ \A i \in 1..Len(text) : Contains(Digits, CharAt(text, i))

\* The text matches the regular expression _strptime has for the directive
DirectiveMatches(d, text) ==
    IF d = "d" /\ Len(text) = 2 /\ CharAt(text, 1) = " "
    THEN IsDigits(CharAt(text, 2)) /\ CharAt(text, 2) # "0"
    ELSE /\ IsDigits(text)
         /\ CASE d = "Y" -> Len(text) = 4
              [] d = "m" -> GroupValue(text) \in 1..12
              [] d = "d" -> GroupValue(text) \in 1..31
              [] d = "H" -> GroupValue(text) \in 0..23
              [] d = "M" -> GroupValue(text) \in 0..59
              [] d = "S" -> GroupValue(text) \in 0..61
              [] OTHER -> FALSE

\* The fields with directive d set from its text
WithField(fields, d, text) ==
    [fields EXCEPT ![d] = GroupValue(StripChars(text, " "))]

\* The first of two attempts that matched
FirstMatch(a, b) == IF a.ok THEN a ELSE b

\* The end of the run of whitespace of s that starts at i
RECURSIVE SpaceEnd(_, _)
SpaceEnd(s, i) ==
    IF i <= Len(s) /\ Contains(Whitespace, CharAt(s, i)) THEN SpaceEnd(s, i + 1) ELSE i

RECURSIVE StrptimeFrom(_, _, _, _, _)
\* Directive d taken as the next len characters of s, then the rest of the format
TakeDirective(s, i, fmt, k, fields, d, len) ==
    IF i + len - 1 <= Len(s) /\ DirectiveMatches(d, SubSeq(s, i, i + len - 1))
    THEN StrptimeFrom(s, i + len, fmt, k + 2,
                      WithField(fields, d, SubSeq(s, i, i + len - 1)))
    ELSE NoMatch

\* The match of the format from position k on against s from position i on: a
\* directive takes its longer alternative first, white space in the format takes
\* any run of white space, any other character takes itself in either letter case
StrptimeFrom(s, i, fmt, k, fields) ==
    IF k > Len(fmt) THEN (IF i > Len(s) THEN fields ELSE NoMatch)
    ELSE IF CharAt(fmt, k) = "%"
    THEN IF CharAt(fmt, k + 1) = "Y"
         THEN TakeDirective(s, i, fmt, k, fields, "Y", 4)
         ELSE FirstMatch(TakeDirective(s, i, fmt, k, fields, CharAt(fmt, k + 1), 2),
                         TakeDirective(s, i, fmt, k, fields, CharAt(fmt, k + 1), 1))
    ELSE IF Contains(Whitespace, CharAt(fmt, k))
    THEN IF SpaceEnd(s, i) > i THEN StrptimeFrom(s, SpaceEnd(s, i), fmt, k + 1, fields)
         ELSE NoMatch
    ELSE IF i <= Len(s) /\ Lower(CharAt(s, i)) = Lower(CharAt(fmt, k))
    THEN StrptimeFrom(s, i + 1, fmt, k + 1, fields)
    ELSE NoMatch

\* The days of month m of year y
DaysIn(y, m) ==
    IF m = 2 THEN (IF y % 4 = 0 /\ (y % 100 # 0 \/ y % 400 = 0) THEN 29 ELSE 28)
    ELSE IF m \in {4, 6, 9, 11} THEN 30 ELSE 31

\* datetime(...) of the parsed fields, or ValueError
DatetimeOf(f) ==
    IF f.ok /\ f.Y >= 1 /\ f.d <= DaysIn(f.Y, f.m) /\ f.S <= 59
    THEN Returned(DateV(ZeroPad(f.Y, 4) \o "-" \o ZeroPad(f.m, 2) \o "-" \o ZeroPad(f.d, 2)
                        \o " " \o ZeroPad(f.H, 2) \o ":" \o ZeroPad(f.M, 2) \o ":"
                        \o ZeroPad(f.S, 2)))
    ELSE Raised("ValueError: time data does not match format")

\* datetime.strptime(value, fmt)
strptime(value, fmt) == DatetimeOf(StrptimeFrom(value, 1, fmt, 1, NoFields))

\* The list formats of parse_date
formats ==
    <<"%Y-%m-%d", "%Y/%m/%d", "%m/%d/%Y", "%Y-%m-%d %H:%M:%S", "%Y-%m-%dT%H:%M:%S">>

RECURSIVE TryFormats(_, _)
\* for fmt in formats: try: return strptime(value, fmt); return value at the end
TryFormats(value, k) ==
    IF k > Len(formats) THEN StrV(value)
    ELSE IF strptime(value, formats[k]).kind = "ok" THEN strptime(value, formats[k]).value
    ELSE TryFormats(value, k + 1)

\* try: return r; except: return value
ValueOr(r, value) == IF r.kind = "ok" THEN r.value ELSE value

\* parse_date of add_date_parsing, date_format "" standing for None
parse_date(value, date_format) ==
    IF value.t = "None" \/ value = StrV("") THEN NoneV
    ELSE IF value.t # "str" THEN value
    ELSE IF date_format # ""
    THEN ValueOr(strptime(value.s, date_format), value)
    ELSE TryFormats(value.s, 1)

\* A number as a float in thousandths (True is 1, as Python multiplies it)
MilliOf(value) == IF value.t = "float" THEN value.n ELSE value.n * 1000

\* The factor num/den a convert_units closure captured
FactorOf(text) ==
    [num |-> GroupValue(Before(text, Find(text, "/"))),
     den |-> GroupValue(After(text, Find(text, "/")))]

\* convert_units of add_unit_conversion; bool is a subclass of int, so
\* isinstance(value, (int, float)) holds of True and False
convert_units(value, conversion_factor) ==
    IF value.t = "None" \/ value.t \notin {"int", "float", "bool"} THEN value
    ELSE IF value.t = "float" /\ value.s # "" THEN value
    ELSE FloatV((MilliOf(value) * conversion_factor.num) \div conversion_factor.den)

\* a == b in Python, for the values here: numbers compare by value across int,
\* float and bool
PyEq(a, b) ==
    IF a.t \in {"int", "float", "bool"} /\ b.t \in {"int", "float", "bool"}
    THEN a.s = b.s /\ MilliOf(a) = MilliOf(b)
    ELSE a = b

\* The places of the keys of a mapping, a dict kept as its items in insertion
\* order, that are strings equal to value in lower case / that equal value
LowerMatches(value, mapping) ==
    { i \in 1..Len(mapping) :
        mapping[i][1].t = "str" /\ Lower(value.s) = Lower(mapping[i][1].s) }
ExactMatches(value, mapping) ==
    { i \in 1..Len(mapping) : PyEq(mapping[i][1], value) }

\* The least place of a set of places
FirstIn(S) == CHOOSE i \in S : \A j \in S : i <= j

\* mapping.get(value, value)
DictGet(mapping, value) ==
    IF ExactMatches(value, mapping) = {} THEN value
    ELSE mapping[FirstIn(ExactMatches(value, mapping))][2]

\* map_categories that looks the value up as it is only
map_categories_exact(value, mapping) ==
    IF value.t = "None" THEN NoneV ELSE DictGet(mapping, value)

\* map_categories of add_categorical_mapping
map_categories(value, mapping) ==
    IF value.t = "None" THEN NoneV
    ELSE IF value.t = "str" /\ LowerMatches(value, mapping) # {}
    THEN mapping[FirstIn(LowerMatches(value, mapping))][2]
    ELSE DictGet(mapping, value)

\* The lambda of the coordinate rules of NASADataTransformer:
\* float(x) if x is not None and str(x).replace('.', '').replace('-', '').isdigit() else x
ensure_numeric(x) ==
    IF x.t # "None" /\ IsDigits(Replace(Replace(StrOf(x), ".", ""), "-", ""))
    THEN (IF x.t = "str" THEN ParseFloat(x.s) ELSE Returned(FloatV(MilliOf(x))))
    ELSE Returned(x)

\* discovery_method_mapping of NASADataTransformer._add_nasa_specific_rules
discovery_method_mapping ==
    << <<StrV("Transit"), StrV("transit")>>,
       <<StrV("Radial Velocity"), StrV("radial_velocity")>>,
       <<StrV("Imaging"), StrV("direct_imaging")>>,
       <<StrV("Microlensing"), StrV("microlensing")>>,
       <<StrV("Eclipse Timing Variations"), StrV("eclipse_timing")>>,
       <<StrV("Orbital Brightness Modulation"), StrV("orbital_brightness")>> >>

\* The mappings passed to add_categorical_mapping: the one of the NASA rules, and
\* one of a caller with two keys that differ in letter case only, values that are
\* not strings and a key that is not a string
CategoricalMappings ==
    << discovery_method_mapping,
       << <<StrV("Yes"), BoolV(TRUE)>>, <<StrV("yes"), BoolV(FALSE)>>,
          <<StrV("unknown"), NoneV>>, <<IntV(42), StrV("answer")>> >> >>

\* rule.transform_func(value): the three default functions, two functions a
\* caller registers, lambda v: v + '!' (TypeError unless v is a str) and a
\* function that always raises, the closures of the add_... methods, named with
\* what they captured, and the lambda of the coordinate rules
Call(transform_func, value) ==
    CASE transform_func = "_normalize_column_name" -> Returned(normalize_column_name(value))
      [] transform_func = "_handle_nulls" -> Returned(handle_nulls(value))
      [] transform_func = "_convert_numeric" -> Returned(convert_numeric(value))
      [] transform_func = "append_bang" ->
            IF value.t = "str" THEN Returned(StrV(value.s \o "!"))
            ELSE Raised("TypeError: unsupported operand type(s) for +")
      [] transform_func = "always_raises" -> Raised("RuntimeError")
      [] StartsWith(transform_func, "convert_units*") ->
            Returned(convert_units(value, FactorOf(Drop(transform_func, 14))))
      [] StartsWith(transform_func, "parse_date:") ->
            Returned(parse_date(value, Drop(transform_func, 11)))
      [] StartsWith(transform_func, "map_categories#") ->
            Returned(map_categories(value,
                                    CategoricalMappings[GroupValue(Drop(transform_func, 15))]))
      [] transform_func = "ensure_numeric" -> ensure_numeric(value)

\* rule.condition(value): the lambda of the third default rule, and a predicate a
\* caller registers: lambda x: len(x) > 3 (TypeError unless x is a str)
Holds(condition, value) ==
    CASE condition = "is_numeric_str" ->
            Returned(BoolV(value.t = "str" /\ is_numeric_string(value)))
      [] condition = "len_gt_3" ->
            IF value.t = "str" THEN Returned(BoolV(Len(value.s) > 3))
            ELSE Raised("TypeError: object has no len()")

\* TransformRule; condition "None" is the default, no condition
TransformRule(column, transform_func, condition) ==
    [column |-> column, transform_func |-> transform_func, condition |-> condition]

\* add_rule that puts the new rule in front
add_rule_prepends(transform_rules_, column, transform_func, condition) ==
    <<TransformRule(column, transform_func, condition)>> \o transform_rules_

\* DataTransformer.add_rule: the rule list after the call
add_rule(transform_rules_, column, transform_func, condition) ==
    Append(transform_rules_, TransformRule(column, transform_func, condition))

\* DataTransformer._add_default_rules, called by __init__ on the empty list
add_default_rules(transform_rules_) ==
    add_rule(add_rule(add_rule(transform_rules_,
                               "*", "_normalize_column_name", "None"),
                      "*", "_handle_nulls", "None"),
             "*", "_convert_numeric", "is_numeric_str")

\* DataTransformer.__init__: the rule list of a new transformer
DataTransformer == add_default_rules(<<>>)

\* DataTransformer.add_unit_conversion, the factor given as num/den
add_unit_conversion(transform_rules_, column, from_unit, to_unit, conversion_factor) ==
    add_rule(transform_rules_, column, "convert_units*" \o conversion_factor, "None")

\* DataTransformer.add_date_parsing, date_format "" standing for None
add_date_parsing(transform_rules_, column, date_format) ==
    add_rule(transform_rules_, column, "parse_date:" \o date_format, "None")

\* DataTransformer.add_categorical_mapping, the mapping given by its place among
\* CategoricalMappings
add_categorical_mapping(transform_rules_, column, mapping) ==
    add_rule(transform_rules_, column, "map_categories#" \o NatStr(mapping), "None")

RECURSIVE add_coordinate_rules(_, _)
\* for coord_col in [...]: self.add_rule(column=coord_col, transform_func=lambda ...)
add_coordinate_rules(transform_rules_, coord_cols) ==
    IF coord_cols = <<>> THEN transform_rules_
    ELSE add_coordinate_rules(add_rule(transform_rules_, Head(coord_cols),
                                       "ensure_numeric", "None"),
                              Tail(coord_cols))

\* NASADataTransformer._add_nasa_specific_rules; 1/317.8 is 10/3178 and 1/11.2 is
\* 10/112
add_nasa_specific_rules(transform_rules_) ==
    add_coordinate_rules(
        add_date_parsing(
            add_categorical_mapping(
                add_unit_conversion(
                    add_unit_conversion(transform_rules_, "pl_masse", "Earth masses",
                                        "Jupiter masses", "10/3178"),
                    "pl_rade", "Earth radii", "Jupiter radii", "10/112"),
                "discoverymethod", 1),
            "disc_year", ""),
        <<"ra", "dec", "glon", "glat">>)

\* NASADataTransformer.__init__: the rule list of a new NASA transformer
NASADataTransformer == add_nasa_specific_rules(add_default_rules(<<>>))

\* A selector that matches every field
Selects_every_field(rule, key) == TRUE

\* A selector that is canonicalized before it is compared
Selects_canonicalizes(rule, key) ==
    rule.column = "*" \/ normalize_column_name(StrV(rule.column)).s = key

\* The selector of a rule matches the canonical field name
Selects(rule, key) == rule.column = "*" \/ rule.column = key

\* The value after a call that loses it when the call raised
AfterCall_loses_value(r, transformed_value) ==
    IF r.kind = "ok" THEN r.value ELSE NoneV

\* The value after rule.transform_func returned or raised (try / except / continue)
AfterCall(r, transformed_value) ==
    IF r.kind = "ok" THEN r.value ELSE transformed_value

RECURSIVE ApplyRules(_, _, _, _, _)
\* Rule i on a field it selects, holds being what its condition returned or raised
\* (True without a condition): the call of transform_func, then the later rules
ApplyRule(rules, i, key, transformed_value, calls, holds) ==
    IF holds.kind = "error"
    THEN [kind |-> "error", value |-> holds.value, calls |-> calls]
    ELSE IF holds.value.n = 1
    THEN ApplyRules(rules, i + 1, key,
                    AfterCall(Call(rules[i].transform_func, transformed_value),
                              transformed_value),
                    Append(calls, <<i, transformed_value>>))
    ELSE ApplyRules(rules, i + 1, key, transformed_value, calls)

\* The loop over self.transform_rules for one field, from rule i on: the value
\* it ends with or the error that leaves it, and the calls of transform_func as
\* <<rule index, value passed>>
ApplyRules(rules, i, key, transformed_value, calls) ==
    IF i > Len(rules)
    THEN [kind |-> "ok", value |-> transformed_value, calls |-> calls]
    ELSE IF Selects(rules[i], key)
    THEN ApplyRule(rules, i, key, transformed_value, calls,
                   IF rules[i].condition = "None" THEN Returned(BoolV(TRUE))
                   ELSE Holds(rules[i].condition, transformed_value))
    ELSE ApplyRules(rules, i + 1, key, transformed_value, calls)

\* A dict that keeps the value a key got first
DictSet_keeps_first(d, key, value) ==
    IF \E i \in 1..Len(d) : d[i][1] = key THEN d ELSE Append(d, <<key, value>>)

\* transformed[key] = value on a dict kept as its items in insertion order
DictSet(d, key, value) ==
    IF \E i \in 1..Len(d) : d[i][1] = key
    THEN [i \in 1..Len(d) |-> IF d[i][1] = key THEN <<key, value>> ELSE d[i]]
    ELSE Append(d, <<key, value>>)

RECURSIVE TransformItems(_, _, _, _, _)
\* Item j, key being its canonical name and r what the loop over the rules ended
\* with: transformed[key] = transformed_value, then the later items
TransformItem(rules, record, j, transformed_, calls, key, r) ==
    IF r.kind = "error"
    THEN [kind |-> "error", value |-> <<>>, calls |-> Append(calls, r.calls)]
    ELSE TransformItems(rules, record, j + 1, DictSet(transformed_, key, r.value),
                        Append(calls, r.calls))

\* The loop over record.items(), from item j on
TransformItems(rules, record, j, transformed_, calls) ==
    IF j > Len(record)
    THEN [kind |-> "ok", value |-> transformed_, calls |-> calls]
    ELSE TransformItem(rules, record, j, transformed_, calls,
                       normalize_column_name(StrV(record[j][1])).s,
                       ApplyRules(rules, 1, normalize_column_name(StrV(record[j][1])).s,
                                  record[j][2], <<>>))

\* DataTransformer.transform_record: the dict returned (or the error that leaves
\* the call), and per input field the calls of transform_func
transform_record(rules, record) == TransformItems(rules, record, 1, <<>>, <<>>)


RECURSIVE TransformRecords(_, _, _, _, _)
\* Record k of the batch, r being what transform_record returned or raised
TransformNext(rules, batch, k, out, calls, r) ==
    IF r.kind = "error"
    THEN [kind |-> "error", value |-> <<>>, calls |-> Append(calls, r.calls)]
    ELSE TransformRecords(rules, batch, k + 1, Append(out, r.value), Append(calls, r.calls))

\* The list comprehension of transform_batch, from record k on
TransformRecords(rules, batch, k, out, calls) ==
    IF k > Len(batch)
    THEN [kind |-> "ok", value |-> out, calls |-> calls]
    ELSE TransformNext(rules, batch, k, out, calls, transform_record(rules, batch[k]))

\* DataTransformer.transform_batch: the list returned (or the error that leaves the
\* call), and per record and field the calls of transform_func
transform_batch(rules, batch) == TransformRecords(rules, batch, 1, <<>>, <<>>)

(***************************************************************************)
(* State and actions: one action per public method                         *)
(***************************************************************************)
NoResult == [kind |-> "none", via |-> "", value |-> ""]
NoTransform == [kind |-> "none", via |-> "", value |-> <<>>, calls |-> <<>>]
\* The clauses select and from_table do not set
OtherClauses(self) ==
    [where_conditions |-> self.where_conditions,
     order_by_clause  |-> self.order_by_clause,
     limit_count      |-> self.limit_count,
     group_by_columns |-> self.group_by_columns,
     having_condition |-> self.having_condition]

NoFailure == [set |-> FALSE, clauses |-> OtherClauses(QueryBuilder)]

\* The list object of the caller, and a builder none of whose lists is one of them
ListObjects == {1}
OwnLists == [select |-> 0, group |-> 0]

Init ==
    /\ qb = QueryBuilder
    /\ cmut = ""
    /\ arg = ""
    /\ prevLen = 0
    /\ result = NoResult
    /\ nbuilds = 0
    /\ failed = NoFailure
    /\ lists = [k \in ListObjects |-> <<"pl_name">>]
    /\ refs = OwnLists
    /\ coords = <<>>
    /\ constraint = NoResult
    /\ transform_rules = DataTransformer
    /\ records = <<>>
    /\ transformed = NoTransform

\* A condition call returned: the instance is `new`
CondCall(new, name, condition) ==
    /\ qb' = new
    /\ cmut' = name
    /\ arg' = condition
    /\ prevLen' = Len(qb.where_conditions)
    /\ result' = NoResult
    /\ nbuilds' = 0
    /\ failed' = NoFailure
    /\ UNCHANGED callerVars
    /\ UNCHANGED spatialVars
    /\ UNCHANGED transformVars

\* A call that sets another clause returned: the instance is `new`
ClauseCall(new, keepsFailure) ==
    /\ qb' = new
    /\ UNCHANGED <<cmut, arg, prevLen>>
    /\ result' = NoResult
    /\ nbuilds' = 0
    /\ failed' = IF keepsFailure THEN failed ELSE NoFailure
    /\ UNCHANGED callerVars
    /\ UNCHANGED spatialVars
    /\ UNCHANGED transformVars

\* The appending calls stay within the bound
CanAppend == Len(qb.where_conditions) < MaxConds

Select(inputs) == \E columns \in inputs : ClauseCall(select(qb, columns), TRUE)

FromTable(inputs) == \E table \in inputs : ClauseCall(from_table(qb, table), TRUE)

Where == \E condition \in Conditions : CondCall(where(qb, condition), "where", condition)

AndWhere ==
    /\ CanAppend
    /\ \E condition \in Conditions :
          CondCall(and_where(qb, condition), "and_where", condition)

OrWhere ==
    /\ CanAppend
    /\ \E condition \in Conditions :
          CondCall(or_where(qb, condition), "or_where", condition)

WhereBetween ==
    /\ CanAppend
    /\ CondCall(where_between(qb, "pl_masse", PyFloat(5), PyFloat(20)), "where_between", "")

WhereIn ==
    /\ CanAppend
    /\ CondCall(where_in(qb, "disc_year", <<PyInt(2020), PyStrV("2021")>>), "where_in", "")

WhereLike ==
    /\ CanAppend
    /\ \E case_insensitive \in BOOLEAN :
          CondCall(where_like(qb, "pl_name", "Kepler%", case_insensitive), "where_like", "")

WhereConfirmed == CanAppend /\ CondCall(where_confirmed(qb), "where_confirmed", "")

WhereCandidates == CanAppend /\ CondCall(where_candidates(qb), "where_candidates", "")

WhereDiscoveryMethod ==
    /\ CanAppend
    /\ \E method \in MethodInputs :
          CondCall(where_discovery_method(qb, method), "where_discovery_method", "")

WhereDefaultFlag == CanAppend /\ CondCall(where_default_flag(qb), "where_default_flag", "")

WhereHasMass == CanAppend /\ CondCall(where_has_mass(qb), "where_has_mass", "")

WhereHasRadius == CanAppend /\ CondCall(where_has_radius(qb), "where_has_radius", "")

WhereEarthSized ==
    CanAppend /\ CondCall(where_earth_sized(qb, PyFloat(18)), "where_earth_sized", "")

WhereSpatialCircle ==
    /\ CanAppend
    /\ CondCall(where_spatial_circle(qb, PyFloat(2175), PyFloat(-625), PyFloat(1)),
                "where_spatial_circle", "")

WhereSpatialBox ==
    /\ CanAppend
    /\ CondCall(where_spatial_box(qb, PyFloat(2175), PyFloat(-625), PyFloat(1), PyInt(2)),
                "where_spatial_box", "")

OrderBy ==
    \E ascending \in BOOLEAN : ClauseCall(order_by(qb, "pl_masse", ascending), FALSE)

Limit == \E n \in LimitInputs : ClauseCall(limit(qb, n), FALSE)

GroupBy == \E columns \in GroupInputs : ClauseCall(group_by(qb, columns), FALSE)

Having == ClauseCall(having(qb, "count(*) > 1"), FALSE)

CountCall == ClauseCall(count(qb, "*"), FALSE)

Distinct == ClauseCall(distinct(qb, [t |-> "str", s |-> "pl_name"]), FALSE)

\* A call that returns a string or raises: build() and to_url_encoded(), which calls it
Returns(r, via) ==
    /\ result' = [kind |-> r.kind, via |-> via, value |-> r.value]
    /\ qb' = build_state(qb)
    /\ nbuilds' = IF via # "build" THEN 0
                  ELSE IF result.via = "build" /\ nbuilds >= 1 THEN 2
                  ELSE 1
    /\ failed' = IF r.kind = "error"
                 THEN [set |-> TRUE, clauses |-> OtherClauses(qb)]
                 ELSE failed
    /\ UNCHANGED <<cmut, arg, prevLen>>
    /\ UNCHANGED callerVars
    /\ UNCHANGED spatialVars
    /\ UNCHANGED transformVars

Build == Returns(build(qb), "build")

ToUrlEncoded == Returns(to_url_encoded(qb), "to_url_encoded")

\* The builder with every clause setter and the raw condition calls
Next ==
    \/ Select(SelectInputs) \/ FromTable(TableInputs) \/ Where
    \/ OrderBy \/ Limit \/ GroupBy \/ Having \/ CountCall \/ Distinct
    \/ Build \/ ToUrlEncoded

Spec == Init /\ [][Next]_vars

\* The builder with every condition call
NextCond ==
    \/ Select({[t |-> "str", s |-> "*"]}) \/ FromTable({PLANETARY_SYSTEMS})
    \/ Where \/ AndWhere \/ OrWhere
    \/ WhereBetween \/ WhereIn \/ WhereLike \/ WhereConfirmed \/ WhereCandidates
    \/ WhereDiscoveryMethod \/ WhereDefaultFlag \/ WhereHasMass \/ WhereHasRadius
    \/ WhereEarthSized \/ WhereSpatialCircle \/ WhereSpatialBox
    \/ Build

SpecCond == Init /\ [][NextCond]_vars

(***************************************************************************)
(* Reading a built query back                                              *)
(***************************************************************************)
Min(S) == CHOOSE x \in S : \A y \in S : x <= y

\* The keywords that can follow the WHERE clause
LaterKeywords == {" GROUP BY ", " HAVING ", " ORDER BY "}

\* The text of the WHERE clause of a built query ("" when it has none)
WhereClauseOf(query) ==
    LET i == Find(query, " WHERE ")
    IN  IF i = 0 THEN ""
        ELSE LET rest == Drop(query, i + 6)
                 ends == {Find(rest, k) : k \in LaterKeywords} \ {0}
             IN  IF ends = {} THEN rest ELSE SubSeq(rest, 1, Min(ends) - 1)

\* c with one leading boolean-operator prefix removed
StripOnce(c) ==
    IF StartsWith(c, "AND ") THEN Drop(c, 4)
    ELSE IF StartsWith(c, "OR ") THEN Drop(c, 3)
    ELSE c

\* The WHERE clause a stored condition list is to be serialized to
ExpectedWhere(conds) ==
    IF conds = <<>> THEN ""
    ELSE Cat([i \in 1..Len(conds) |-> IF i = 1 THEN StripOnce(conds[1]) ELSE " " \o conds[i]],
             1, Len(conds))

Last(seq) == seq[Len(seq)]

(***************************************************************************)
(* C1                                                                      *)
(***************************************************************************)
\* C1 as stated: after where(c), whatever condition calls came before, the stored
\* list is exactly [c] and the next build() emits `WHERE c`.
C1_WhereEmitsConditionVerbatim ==
    cmut = "where" =>
        /\ qb.where_conditions = <<arg>>
        /\ (result.kind = "ok" => WhereClauseOf(result.value) = arg)

\* C1 (amended): after where(c), whatever condition calls came before, the stored
\* list is exactly [c], and the next build() emits as its whole WHERE clause c
\* with one leading `AND `/`OR ` prefix removed if c begins with one.
C1_WhereReplaces ==
    cmut = "where" =>
        /\ qb.where_conditions = <<arg>>
        /\ (result.kind = "ok" => WhereClauseOf(result.value) = StripOnce(arg))

\* where(c) was called on a list of two conditions and the query was built
C1_Witness ==
    /\ cmut = "where"
    /\ prevLen >= 2
    /\ result.kind = "ok"
    /\ result.via = "build"

(***************************************************************************)
(* C2                                                                      *)
(***************************************************************************)
Prefix(name) == IF name = "and_where" THEN "AND " ELSE "OR "

\* C2: and_where(c) / or_where(c) append `AND c` / `OR c` to the stored list as it
\* is, also when it is empty; when the call is made on the empty list, build()
\* emits `WHERE c`.
C2_AlwaysAppends ==
    [][cmut' \in {"and_where", "or_where"} =>
          /\ Len(qb'.where_conditions) = prevLen' + 1
          /\ Last(qb'.where_conditions) = Prefix(cmut') \o arg'
          /\ (qb'.where_conditions # qb.where_conditions =>
                qb'.where_conditions = Append(qb.where_conditions, Prefix(cmut') \o arg'))
          /\ (prevLen' = 0 /\ result'.kind = "ok" =>
                result'.value = "SELECT * FROM ps WHERE " \o arg')]_vars

\* or_where(c) was the first condition call and the query was built
C2_Witness ==
    /\ cmut = "or_where"
    /\ prevLen = 0
    /\ qb.where_conditions = <<"OR " \o arg>>
    /\ result.kind = "ok"

(***************************************************************************)
(* C3                                                                      *)
(***************************************************************************)
ConvenienceCalls ==
    {"where_between", "where_in", "where_like", "where_confirmed", "where_candidates",
     "where_discovery_method", "where_default_flag", "where_has_mass",
     "where_has_radius", "where_earth_sized", "where_spatial_circle",
     "where_spatial_box"}

\* The condition text each convenience call is to produce for the inputs used here
ConvenienceConditions(name) ==
    CASE name = "where_between" -> {"pl_masse between 0.5 and 2.0"}
      [] name = "where_in" -> {"disc_year in (2020,'2021')"}
      [] name = "where_like" -> {"upper(pl_name) like upper('Kepler%')",
                                 "pl_name like 'Kepler%'"}
      [] name = "where_confirmed" -> {"upper(soltype) like upper('%CONF%')"}
      [] name = "where_candidates" -> {"upper(soltype) like upper('%CAND%')"}
      [] name = "where_discovery_method" -> {"discoverymethod = 'Transit'"}
      [] name = "where_default_flag" -> {"default_flag=1"}
      [] name = "where_has_mass" -> {"pl_masse > 0"}
      [] name = "where_has_radius" -> {"pl_rade > 0"}
      [] name = "where_earth_sized" -> {"pl_rade <= 1.8"}
      [] name = "where_spatial_circle" ->
            {"contains(point('icrs',ra,dec),circle('icrs',217.5,-62.5,0.1))=1"}
      [] name = "where_spatial_box" ->
            {"contains(point('icrs',ra,dec),box('icrs',217.5,-62.5,0.1,2))=1"}

\* C3: every convenience predicate appends its condition with an `AND ` prefix, keeping
\* every stored condition, when the list is non-empty, and stores it as the sole
\* unprefixed element when the list is empty.
C3_ConvenienceDispatch ==
    [][cmut' \in ConvenienceCalls =>
          \E c \in ConvenienceConditions(cmut') :
             /\ prevLen' = 0 => qb'.where_conditions = <<c>>
             /\ prevLen' > 0 =>
                  /\ Len(qb'.where_conditions) = prevLen' + 1
                  /\ Last(qb'.where_conditions) = "AND " \o c
             /\ qb'.where_conditions # qb.where_conditions =>
                  qb'.where_conditions =
                     IF qb.where_conditions = <<>> THEN <<c>>
                     ELSE Append(qb.where_conditions, "AND " \o c)]_vars

\* a convenience predicate was called after a raw or_where and kept it
C3_Witness ==
    /\ cmut \in {"where_confirmed", "where_like"}
    /\ prevLen = 1
    /\ Len(qb.where_conditions) = 2
    /\ StartsWith(qb.where_conditions[1], "OR ")

Decimal(n) == CASE n = 5 -> "5" [] n = 10 -> "10"

C6_MissingClauseRaises ==
    (/\ result.kind # "none"
     /\ result.via = "build"
     /\ (qb.select_columns = <<>> \/ ~qb.from_table.set)) =>
        /\ result.kind = "error"
        /\ StartsWith(result.value, "ValueError")

\* build() raised for a builder with columns, conditions and an ordering but no table
C6_Witness ==
    /\ result.kind = "error"
    /\ result.via = "build"
    /\ qb.select_columns # <<>>
    /\ ~qb.from_table.set
    /\ qb.where_conditions # <<>>
    /\ qb.order_by_clause.set

(***************************************************************************)
(* C7                                                                      *)
(***************************************************************************)
\* A built query shows every one of the given clauses
Reflects(query, clauses) ==
    /\ WhereClauseOf(query) = ExpectedWhere(clauses.where_conditions)
    /\ clauses.group_by_columns # <<>> =>
          Contains(query, " GROUP BY " \o Join(",", clauses.group_by_columns))
    /\ clauses.having_condition.set =>
          Contains(query, " HAVING " \o clauses.having_condition.val)
    /\ clauses.order_by_clause.set =>
          Contains(query, " " \o clauses.order_by_clause.val)
    /\ (clauses.limit_count.set /\ clauses.limit_count.val > 0) =>
          StartsWith(query, "SELECT TOP " \o Decimal(clauses.limit_count.val) \o " ")

\* C7: a build() that raises leaves every field of the builder as it was; once
\* select / from_table supplied what was missing, build() succeeds and its output
\* shows every clause that was set before the failed call.
C7_FailedBuildKeepsState ==
    [][/\ result'.kind = "error" => qb' = qb
       /\ (/\ failed'.set
           /\ result'.kind # "none"
           /\ qb'.select_columns # <<>>
           /\ qb'.from_table.set) =>
              /\ result'.kind = "ok"
              /\ result'.via = "build" => Reflects(result'.value, failed'.clauses)]_vars

\* build() failed for want of a table, from_table supplied it, and the retried build()
\* returned a query
C7_Witness ==
    /\ failed.set
    /\ result.kind = "ok"
    /\ result.via = "build"
    /\ failed.clauses.where_conditions # <<>>
    /\ failed.clauses.order_by_clause.set
    /\ failed.clauses.limit_count.set

(***************************************************************************)
(* C8                                                                      *)
(***************************************************************************)
\* C8: build() changes no field of the builder, and build() calls with no mutator
\* call between them (also the one to_url_encoded makes) return the same string.
C8_BuildIsPure ==
    [][result'.kind # "none" =>
          /\ qb' = qb
          /\ (result.kind # "none" /\ result.via = "build" /\ result'.via = "build") =>
                result' = result
          /\ (result.kind = "ok" /\ result.via = "build" /\ result'.via = "to_url_encoded") =>
                result'.value = Replace(result.value, " ", "+")
          /\ (result.kind = "ok" /\ result.via = "to_url_encoded" /\ result'.via = "build") =>
                result.value = Replace(result'.value, " ", "+")]_vars

\* build() was called twice in a row on a builder with a condition
C8_Witness ==
    /\ nbuilds = 2
    /\ result.kind = "ok"
    /\ qb.where_conditions # <<>>

(***************************************************************************)
(* C9                                                                      *)
(***************************************************************************)
\* The clause keywords in the order build() is to emit them
ClauseKeywords == <<"SELECT ", " FROM ", " WHERE ", " GROUP BY ", " HAVING ", " ORDER BY ">>

\* The setter calls, numbered
SetterCalls == 1..17

ApplyCall(i, self) ==
    CASE i = 1 -> select(self, [t |-> "str", s |-> "*"])
      [] i = 2 -> select(self, [t |-> "list", l |-> <<"pl_name", "pl_masse">>])
      [] i = 3 -> select(self, [t |-> "list", l |-> <<>>])
      [] i = 4 -> count(self, "*")
      [] i = 5 -> distinct(self, [t |-> "str", s |-> "pl_name"])
      [] i = 6 -> from_table(self, PLANETARY_SYSTEMS)
      [] i = 7 -> where(self, "a>1")
      [] i = 8 -> where(self, "AND b<2")
      [] i = 9 -> and_where(self, "a>1")
      [] i = 10 -> where_has_mass(self)
      [] i = 11 -> group_by(self, [t |-> "str", s |-> "disc_year"])
      [] i = 12 -> having(self, "count(*) > 1")
      [] i = 13 -> order_by(self, "pl_masse", TRUE)
      [] i = 14 -> order_by(self, "pl_masse", FALSE)
      [] i = 15 -> limit(self, 0)
      [] i = 16 -> limit(self, 5)
      [] i = 17 -> limit(self, 10)

\* The clause each numbered call sets
ClauseOfCall(i) ==
    IF i <= 5 THEN "select" ELSE IF i = 6 THEN "from" ELSE IF i <= 10 THEN "where"
    ELSE IF i = 11 THEN "group_by" ELSE IF i = 12 THEN "having"
    ELSE IF i <= 14 THEN "order_by" ELSE "limit"

\* C9: a built query has its clauses in the order SELECT, FROM, WHERE, GROUP BY,
\* HAVING, ORDER BY, each clause that is set once; and from every state, two calls
\* that set different clauses build the same string in either order.
C9_FixedClauseOrder ==
    /\ (result.kind = "ok" /\ result.via = "build") =>
          /\ StartsWith(result.value, "SELECT ")
          /\ \A i, j \in 1..Len(ClauseKeywords) :
                (/\ i < j
                 /\ Contains(result.value, ClauseKeywords[i])
                 /\ Contains(result.value, ClauseKeywords[j])) =>
                    Find(result.value, ClauseKeywords[i]) < Find(result.value, ClauseKeywords[j])
          /\ \A i \in 1..Len(ClauseKeywords) : CountOf(result.value, ClauseKeywords[i]) <= 1
          /\ Contains(result.value, " WHERE ") <=> qb.where_conditions # <<>>
          /\ Contains(result.value, " GROUP BY ") <=> qb.group_by_columns # <<>>
          /\ Contains(result.value, " HAVING ") <=> qb.having_condition.set
          /\ Contains(result.value, " ORDER BY ") <=> qb.order_by_clause.set
    /\ \A i, j \in SetterCalls :
          (i < j /\ ClauseOfCall(i) # ClauseOfCall(j)) =>
              build(ApplyCall(i, ApplyCall(j, qb))) = build(ApplyCall(j, ApplyCall(i, qb)))

\* a query with all six clauses was built, the ordering having been set last but one
C9_Witness ==
    /\ result.kind = "ok"
    /\ result.via = "build"
    /\ \A i \in 1..Len(ClauseKeywords) : Contains(result.value, ClauseKeywords[i])
    /\ Contains(result.value, "TOP")

(***************************************************************************)
(* C10                                                                     *)
(***************************************************************************)
\* C10 as stated: to_url_encoded() returns build()'s output with every space replaced
\* by `+` and then percent-encoded, as url_encode_query does.
C10_UrlEncodedIsPercentEncoded ==
    (result.kind = "ok" /\ result.via = "to_url_encoded") =>
        /\ build(qb).kind = "ok"
        /\ result.value = url_encode_query(build(qb).value)

(***************************************************************************)
(* C11                                                                     *)
(***************************************************************************)
\* C11 as stated: with select and from_table set, the string build() returns after
\* where_confirmed() contains the fragment `upper(soltype) like upper('%25CONF%25')`.
C11_ConfirmedIsPercentEncoded ==
    (cmut = "where_confirmed" /\ result.kind = "ok" /\ result.via = "build") =>
        Contains(result.value, "upper(soltype) like upper('%25CONF%25')")

(***************************************************************************)
(* C12                                                                     *)
(***************************************************************************)
\* C12: whenever the column list is non-empty and the table name is non-empty,
\* whatever other clauses are set, build() returns a string that begins with
\* `SELECT` and contains the token `FROM <table>` exactly once.
C12_SelectThenOneFrom ==
    (qb.select_columns # <<>> /\ qb.from_table.set /\ qb.from_table.val # "") =>
        LET r == build(qb)
        IN  /\ r.kind = "ok"
            /\ StartsWith(r.value, "SELECT ")
            /\ CountOf(r.value, " FROM ") = 1
            /\ CountOf(r.value, " FROM " \o qb.from_table.val) = 1
            /\ (result.via = "build" => result = [kind |-> "ok", via |-> "build", value |-> r.value])

\* a query of two columns with a limit, a condition, a grouping, a HAVING and an
\* ordering was built
C12_Witness ==
    /\ Len(qb.select_columns) = 2
    /\ qb.limit_count.set /\ qb.limit_count.val > 0
    /\ qb.where_conditions # <<>>
    /\ qb.group_by_columns # <<>>
    /\ qb.having_condition.set
    /\ qb.order_by_clause.set
    /\ result.via = "build"
    /\ CountOf(result.value, " FROM ps") = 1

(***************************************************************************)
(* The lists a caller passes to select / group_by                          *)
(*                                                                         *)
(* select and group_by assign the caller's list object itself to the       *)
(* attribute; the caller can still mutate that object, and build() reads   *)
(* the attribute when it is called.                                        *)
(***************************************************************************)
MaxCols == 2

\* The column name the caller appends to its list
ColumnNames == {"pl_masse"}

\* A builder call that assigns list attributes returned: the instance is `new`
ListCall(new, newrefs) ==
    /\ qb' = new
    /\ refs' = newrefs
    /\ result' = NoResult
    /\ nbuilds' = 0
    /\ UNCHANGED <<cmut, arg, prevLen, failed, lists>>
    /\ UNCHANGED spatialVars
    /\ UNCHANGED transformVars

\* select(columns), columns being a list object of the caller
SelectList ==
    \E k \in ListObjects :
        ListCall(select(qb, [t |-> "list", l |-> lists[k]]), [refs EXCEPT !.select = k])

\* select('*'): the attribute is a new list
SelectStr == ListCall(select(qb, [t |-> "str", s |-> "*"]), [refs EXCEPT !.select = 0])

\* group_by(columns), columns being a list object of the caller
GroupByList ==
    \E k \in ListObjects :
        ListCall(group_by(qb, [t |-> "list", l |-> lists[k]]), [refs EXCEPT !.group = k])

\* group_by('disc_year'): the attribute is a new list
GroupByStr ==
    ListCall(group_by(qb, [t |-> "str", s |-> "disc_year"]), [refs EXCEPT !.group = 0])

\* distinct(columns), columns being a list object of the caller: the attribute is
\* a new list built from it
DistinctList ==
    \E k \in ListObjects :
        ListCall(distinct(qb, [t |-> "list", l |-> lists[k]]), [refs EXCEPT !.select = 0])

\* The builder as it is once the caller's list object k holds `contents`
Sees(self, k, contents) ==
    [self EXCEPT !.select_columns = IF refs.select = k THEN contents ELSE @,
                 !.group_by_columns = IF refs.group = k THEN contents ELSE @]

\* The caller mutates one of its list objects; no builder method is called
CallerMutates(k, contents) ==
    /\ lists' = [lists EXCEPT ![k] = contents]
    /\ qb' = Sees(qb, k, contents)
    /\ UNCHANGED <<cmut, arg, prevLen, result, nbuilds, failed, refs>>
    /\ UNCHANGED spatialVars
    /\ UNCHANGED transformVars

\* cols.append(name)
CallerAppend ==
    \E k \in ListObjects, name \in ColumnNames :
        /\ Len(lists[k]) < MaxCols
        /\ CallerMutates(k, Append(lists[k], name))

\* cols.pop()
CallerPop ==
    \E k \in ListObjects :
        /\ lists[k] # <<>>
        /\ CallerMutates(k, SubSeq(lists[k], 1, Len(lists[k]) - 1))

\* The builder and the caller's lists
NextCaller ==
    \/ SelectList \/ SelectStr \/ GroupByList \/ GroupByStr \/ DistinctList
    \/ FromTable({[t |-> "str", s |-> "ps"]})
    \/ CallerAppend \/ CallerPop
    \/ Build

SpecCaller == Init /\ [][NextCaller]_vars

(***************************************************************************)
(* C13                                                                     *)
(***************************************************************************)
\* C13 as stated: the clause state changes only through calls on the builder: when
\* the caller mutates a list it gave to select or group_by, what build() returns
\* stays what it was.
C13_CallerMutationKeepsBuild ==
    [][lists' # lists => build(qb') = build(qb)]_vars

(***************************************************************************)
(* SpatialConstraints.polygon                                              *)
(***************************************************************************)
MaxVertices == 4

\* polygon that raises only below two vertices
polygon_accepts_two(coordinates, coordinate_system) ==
    IF Len(coordinates) < 2
    THEN Raise("ValueError: Polygon must have at least 3 vertices")
    ELSE Ok("contains(point('" \o coordinate_system \o "',ra,dec),polygon('"
            \o coordinate_system \o "',"
            \o Join(",", [i \in 1..Len(coordinates) |->
                            PyFormat(coordinates[i][1]) \o "," \o PyFormat(coordinates[i][2])])
            \o "))=1")

\* SpatialConstraints.polygon: the string returned or the error raised
polygon(coordinates, coordinate_system) ==
    IF Len(coordinates) < 3
    THEN Raise("ValueError: Polygon must have at least 3 vertices")
    ELSE LET coord_str ==
                Join(",", [i \in 1..Len(coordinates) |->
                             PyFormat(coordinates[i][1]) \o "," \o PyFormat(coordinates[i][2])])
         IN  Ok("contains(point('" \o coordinate_system \o "',ra,dec),polygon('"
                \o coordinate_system \o "'," \o coord_str \o "))=1")

\* The (ra, dec) tuples the caller puts into the vertex list
Vertices ==
    { <<PyFloat(2170), PyFloat(-620)>>,
      <<PyInt(1), PyInt(2)>>,
      <<PyFloat(15), PyInt(-3)>> }

\* The caller appends a vertex to the list
AddVertex ==
    /\ Len(coords) < MaxVertices
    /\ \E v \in Vertices : coords' = Append(coords, v)
    /\ constraint' = NoResult
    /\ UNCHANGED builderVars
    /\ UNCHANGED callerVars
    /\ UNCHANGED transformVars

\* SpatialConstraints.polygon(coords)
Polygon ==
    /\ constraint' = [kind |-> polygon(coords, "icrs").kind, via |-> "polygon",
                      value |-> polygon(coords, "icrs").value]
    /\ UNCHANGED coords
    /\ UNCHANGED builderVars
    /\ UNCHANGED callerVars
    /\ UNCHANGED transformVars

NextSpatial == AddVertex \/ Polygon

SpecSpatial == Init /\ [][NextSpatial]_vars

(***************************************************************************)
(* C14                                                                     *)
(***************************************************************************)
\* ra1,dec1,ra2,dec2,... of a vertex list, comma-joined in the order given
Flattened(vs) ==
    Join(",", [i \in 1..(2 * Len(vs)) |->
                 PyFormat(vs[(i + 1) \div 2][IF i % 2 = 1 THEN 1 ELSE 2])])

\* C14: polygon(vertices) raises ValueError for every list of fewer than 3 vertices,
\* and for every list of 3 or more returns a predicate that contains all the
\* coordinates flattened as ra1,dec1,ra2,dec2,... comma-joined in the order given.
C14_PolygonVertices ==
    constraint.via = "polygon" =>
        /\ Len(coords) < 3 =>
              /\ constraint.kind = "error"
              /\ StartsWith(constraint.value, "ValueError")
        /\ Len(coords) >= 3 =>
              /\ constraint.kind = "ok"
              /\ Contains(constraint.value, "'," \o Flattened(coords) \o ")")
              /\ constraint.value =
                    "contains(point('icrs',ra,dec),polygon('icrs'," \o Flattened(coords) \o "))=1"

\* polygon was applied to four vertices, a negative float and integers among them
C14_Witness ==
    /\ constraint.via = "polygon"
    /\ constraint.kind = "ok"
    /\ Len(coords) = 4
    /\ coords[1] # coords[2]
    /\ Contains(constraint.value, "217.0,-62.0,")

(***************************************************************************)
(* DataTransformer: the rules a caller registers, the records it passes,   *)
(* and one action per public method                                        *)
(***************************************************************************)
MaxRules == 5

\* add_rule(column, transform_func, condition) as a caller makes it: for every
\* field or for one column, with a function that raises on some values or on
\* all, without a condition or with one that raises on some values
CallerRules ==
    { TransformRule("*", "append_bang", "None"),
      TransformRule("pl_masse", "append_bang", "len_gt_3"),
      TransformRule("pl_masse", "always_raises", "None"),
      TransformRule("*", "always_raises", "len_gt_3") }

\* Field values: the null sentinels in several letter cases, numeric strings,
\* other strings, and values that are not strings
SampleValues ==
    { StrV(s) : s \in {"", "null", "NULL", "Null", "nan", "NAN", "N/A", "n/a", "-", "--",
                       "0", "42", "2.3", "-5", "-62.67", "1e5", "abc", "Kepler-442 b"} }
    \cup { NoneV, IntV(5), FloatV(2500) }

\* The two sample records of the example, and a record with a field that is not
\* a string
SampleRecords ==
    << << <<"PL_NAME", StrV("Kepler-442 b")>>, <<"pl_masse", StrV("2.3")>>,
          <<"empty_field", StrV("")>> >>,
       << <<"PL_NAME", StrV("TRAPPIST-1 d")>>, <<"pl_masse", StrV("0.297")>>,
          <<"null_field", StrV("NULL")>> >>,
       << <<"pl_name", StrV("abc")>>, <<"pl_masse", StrV("N/A")>>,
          <<"disc_year", IntV(2014)>> >> >>

\* A record for transform_record: one field, or a sample record
RecordInputs ==
    { << <<"pl_masse", v>> >> : v \in SampleValues }
    \cup { SampleRecords[i] : i \in 1..Len(SampleRecords) }

\* A list of records for transform_batch
BatchInputs ==
    { <<>>,
      <<SampleRecords[1], SampleRecords[2]>>,
      <<SampleRecords[3], SampleRecords[1]>>,
      <<SampleRecords[2], SampleRecords[3], SampleRecords[2]>> }

\* transformer.add_rule(...)
AddRule ==
    /\ Len(transform_rules) < MaxRules
    /\ \E rule \in CallerRules :
          transform_rules' = add_rule(transform_rules, rule.column, rule.transform_func,
                                      rule.condition)
    /\ transformed' = NoTransform
    /\ UNCHANGED records
    /\ UNCHANGED builderVars
    /\ UNCHANGED callerVars
    /\ UNCHANGED spatialVars

\* The caller gets the records it is going to pass to the transformer
ReadRecords ==
    /\ \E input \in { <<record>> : record \in RecordInputs } \cup BatchInputs :
          records' = input
    /\ transformed' = NoTransform
    /\ UNCHANGED transform_rules
    /\ UNCHANGED builderVars
    /\ UNCHANGED callerVars
    /\ UNCHANGED spatialVars

\* What transform_record returned or raised, kept as a list of one dict
OneRecord(r) ==
    [kind |-> r.kind, value |-> IF r.kind = "ok" THEN <<r.value>> ELSE <<>>,
     calls |-> <<r.calls>>]

\* A transform call returned or raised
Transformed(r, via) ==
    /\ transformed' = [kind |-> r.kind, via |-> via, value |-> r.value, calls |-> r.calls]
    /\ UNCHANGED <<transform_rules, records>>
    /\ UNCHANGED builderVars
    /\ UNCHANGED callerVars
    /\ UNCHANGED spatialVars

\* transformer.transform_record(records[0])
TransformRecord ==
    /\ Len(records) = 1
    /\ Transformed(OneRecord(transform_record(transform_rules, records[1])),
                   "transform_record")

\* transformer.transform_batch(records)
TransformBatch == Transformed(transform_batch(transform_rules, records), "transform_batch")

NextTransform == AddRule \/ ReadRecords \/ TransformRecord \/ TransformBatch

SpecTransform == Init /\ [][NextTransform]_vars

(***************************************************************************)
(* DataTransformer with its specialization methods, NASADataTransformer,   *)
(* and rules registered for a column under a name that is not canonical    *)
(***************************************************************************)
\* The columns the add_... methods are called for, and the factor, as num/den
HookColumns == {"pl_masse", "discoverymethod"}
ConversionFactors == {"2/1"}

\* add_rule(column, transform_func) with a column that is not a canonical name
SelectorRules ==
    { TransformRule("PL_MASSE", "append_bang", "None"),
      TransformRule("pl masse", "append_bang", "None") }

\* Records in the manner of the sample records: names in several spellings, two
\* and three of which have the same canonical name, and values of every kind
HookRecords ==
    << << <<"PL_NAME", StrV("Kepler-442 b")>>, <<"DISCOVERYMETHOD", StrV("Transit")>>,
          <<"pl_masse", StrV("2.3")>>, <<"disc_year", StrV("2015")>> >>,
       << <<"Pl Name", StrV("TRAPPIST-1 d")>>, <<"discoverymethod", StrV("Imaging")>>,
          <<"PL_MASSE", StrV("1e2")>>, <<"ra", StrV("346.6")>> >>,
       << <<"pl masse", StrV("abc")>>, <<"DiscoveryMethod", StrV("YES")>>,
          <<"dec", StrV("")>> >>,
       << <<"__Discovery - Method__", StrV("x")>>,
          <<"discoverymethod", StrV("Radial Velocity")>>, <<"pl_masse", StrV("42")>> >>,
       << <<"PL_NAME", StrV("A")>>, <<"pl__Name!", StrV("B")>>,
          <<"discoverymethod", StrV("42")>>, <<"pl_name", StrV("C")>> >> >>

\* What the caller passes to transform_record and transform_batch
HookInputs ==
    { <<HookRecords[i]>> : i \in 1..Len(HookRecords) }
    \cup { <<HookRecords[1], HookRecords[2]>>, <<HookRecords[5], HookRecords[3]>> }

\* A method that registers rules returned: the rule list is `new`
Registered(new) ==
    /\ Len(transform_rules) < MaxRules
    /\ transform_rules' = new
    /\ transformed' = NoTransform
    /\ UNCHANGED records
    /\ UNCHANGED builderVars
    /\ UNCHANGED callerVars
    /\ UNCHANGED spatialVars

\* transformer.add_rule(column, transform_func) with such a column
AddSelectorRule ==
    \E rule \in SelectorRules :
       Registered(add_rule(transform_rules, rule.column, rule.transform_func,
                           rule.condition))

\* transformer.add_unit_conversion(column, from_unit, to_unit, conversion_factor)
AddUnitConversion ==
    \E column \in HookColumns, conversion_factor \in ConversionFactors :
       Registered(add_unit_conversion(transform_rules, column, "from", "to",
                                      conversion_factor))

\* transformer.add_date_parsing(column)
AddDateParsing == Registered(add_date_parsing(transform_rules, "disc_year", ""))

\* transformer.add_categorical_mapping(column, mapping)
AddCategoricalMapping ==
    \E mapping \in 1..Len(CategoricalMappings) :
       Registered(add_categorical_mapping(transform_rules, "discoverymethod", mapping))

\* NASADataTransformer.__init__, from the return of super().__init__() on
AddNasaSpecificRules ==
    /\ transform_rules = DataTransformer
    /\ Registered(add_nasa_specific_rules(transform_rules))

\* The caller gets the records it is going to pass to the transformer
ReadHookRecords ==
    /\ \E input \in HookInputs : records' = input
    /\ transformed' = NoTransform
    /\ UNCHANGED transform_rules
    /\ UNCHANGED builderVars
    /\ UNCHANGED callerVars
    /\ UNCHANGED spatialVars

NextHooks ==
    \/ AddSelectorRule \/ AddUnitConversion \/ AddDateParsing \/ AddCategoricalMapping
    \/ AddNasaSpecificRules
    \/ ReadHookRecords \/ TransformRecord \/ TransformBatch

SpecHooks == Init /\ [][NextHooks]_vars

(***************************************************************************)
(* Reading a transform call back                                           *)
(***************************************************************************)
\* d[key] of a dict kept as its items
Lookup(d, key) == (CHOOSE item \in {d[i] : i \in 1..Len(d)} : item[1] = key)[2]

\* The canonical name, the input value, the logged calls and the output value of
\* field j of record k
KeyOf(k, j) == normalize_column_name(StrV(records[k][j][1])).s
InputOf(k, j) == records[k][j][2]
CallsOf(k, j) == transformed.calls[k][j]
OutputOf(k, j) == Lookup(transformed.value[k], KeyOf(k, j))

\* The input fields as <<record, field>>
Fields == UNION { { <<k, j>> : j \in 1..Len(records[k]) } : k \in 1..Len(records) }

\* Call m of a log raised
RaisedAt(c, m) == Call(transform_rules[c[m][1]].transform_func, c[m][2]).kind = "error"

\* What call m of a log left as the current value
LeftBy(c, m) ==
    IF RaisedAt(c, m) THEN c[m][2]
    ELSE Call(transform_rules[c[m][1]].transform_func, c[m][2]).value

\* The current value when rule i is reached, read off the log of the field
CurrentAt(c, input, i) ==
    IF \E m \in 1..Len(c) : c[m][1] < i
    THEN LeftBy(c, CHOOSE m \in 1..Len(c) :
                      c[m][1] < i /\ \A m2 \in 1..Len(c) : c[m2][1] < i => m2 <= m)
    ELSE input

\* The condition of rule i is absent or holds on v
ConditionHolds(i, v) ==
    \/ transform_rules[i].condition = "None"
    \/ /\ Holds(transform_rules[i].condition, v).kind = "ok"
       /\ Holds(transform_rules[i].condition, v).value = BoolV(TRUE)

(***************************************************************************)
(* C15                                                                     *)
(***************************************************************************)
\* C15: for every field of every record, the rules are applied in registration
\* order, each one to the value the previous one left; rule i is applied if and
\* only if its column is `*` or the canonical field name and it has no condition
\* or its condition holds on the value current when it is reached; the field
\* comes out with the value the last applied rule left.
C15_FoldInRegistrationOrder ==
    transformed.kind = "ok" =>
        \A f \in Fields :
            LET c == CallsOf(f[1], f[2])
                input == InputOf(f[1], f[2])
            IN  /\ \A m \in 1..(Len(c) - 1) : c[m][1] < c[m + 1][1]
                /\ \A m \in 1..Len(c) :
                      c[m][2] = IF m = 1 THEN input ELSE LeftBy(c, m - 1)
                /\ \A i \in 1..Len(transform_rules) :
                      (\E m \in 1..Len(c) : c[m][1] = i) <=>
                          /\ transform_rules[i].column \in {"*", KeyOf(f[1], f[2])}
                          /\ ConditionHolds(i, CurrentAt(c, input, i))
                /\ OutputOf(f[1], f[2]) = IF c = <<>> THEN input ELSE LeftBy(c, Len(c))

\* a record of several fields went through five rules: one field had a rule for
\* its column applied, another field did not
C15_Witness ==
    /\ transformed.kind = "ok"
    /\ Len(transform_rules) = 5
    /\ \E f, g \in Fields :
          /\ f[1] = g[1]
          /\ \E m \in 1..Len(CallsOf(f[1], f[2])) :
                transform_rules[CallsOf(f[1], f[2])[m][1]].column = KeyOf(f[1], f[2])
          /\ Len(CallsOf(g[1], g[2])) < Len(CallsOf(f[1], f[2]))
          /\ Len(CallsOf(f[1], f[2])) >= 4

(***************************************************************************)
(* C16                                                                     *)
(***************************************************************************)
RECURSIVE Without(_, _, _)
\* The rules from index i on, those with an index in F left out
Without(rules, F, i) ==
    IF i > Len(rules) THEN <<>>
    ELSE (IF i \in F THEN <<>> ELSE <<rules[i]>>) \o Without(rules, F, i + 1)

\* The rules whose transform raised on a field, read off its log
RaisedOn(c) == { c[m][1] : m \in { n \in 1..Len(c) : RaisedAt(c, n) } }

\* C16: when a rule's transform raises on a field, the call still returns (no
\* condition being there to raise), the value of the field stays what it was
\* before that rule, the later rules run on that value, and every field of every
\* record of the batch comes out as it does when the rules that raised on it are
\* not registered at all.
C16_FailureIsContained ==
    /\ (/\ transformed.kind # "none"
        /\ \A i \in 1..Len(transform_rules) :
              transform_rules[i].condition \in {"None", "is_numeric_str"}) =>
            transformed.kind = "ok"
    /\ transformed.kind = "ok" =>
          \A f \in Fields :
              LET c == CallsOf(f[1], f[2])
              IN  /\ \A m \in 1..Len(c) :
                        RaisedAt(c, m) =>
                            IF m < Len(c) THEN c[m + 1][2] = c[m][2]
                            ELSE OutputOf(f[1], f[2]) = c[m][2]
                  /\ OutputOf(f[1], f[2]) =
                        ApplyRules(Without(transform_rules, RaisedOn(c), 1), 1,
                                   KeyOf(f[1], f[2]), InputOf(f[1], f[2]), <<>>).value

\* in a batch of two records a transform raised on a field of the first one, a
\* later rule was then applied to that field and returned, and the fields of the
\* other record were transformed
C16_Witness ==
    /\ transformed.kind = "ok"
    /\ transformed.via = "transform_batch"
    /\ Len(records) = 2
    /\ \E j \in 1..Len(records[1]) :
          \E m \in 1..(Len(CallsOf(1, j)) - 1) :
             /\ RaisedAt(CallsOf(1, j), m)
             /\ ~RaisedAt(CallsOf(1, j), m + 1)
             /\ OutputOf(1, j) # CallsOf(1, j)[m][2]
    /\ \E j \in 1..Len(records[2]) : OutputOf(2, j) # InputOf(2, j)

(***************************************************************************)
(* C17                                                                     *)
(***************************************************************************)
\* C17 as stated: transform_record and transform_batch never raise, whatever the
\* record, the registered rules and the way a rule fails (its transform raising
\* or its condition raising).
C17_TransformNeverRaises ==
    transformed.kind # "error"

(***************************************************************************)
(* C18, C19, C20: the default pipeline on a field that is a string         *)
(***************************************************************************)
\* The null sentinels, compared case-insensitively
NullSentinels == {"", "null", "nan", "n/a", "-", "--"}

\* transform_record returned, in the default pipeline, for a record of one field
\* that is a string
DefaultOnString ==
    /\ transform_rules = DataTransformer
    /\ transformed.kind = "ok"
    /\ transformed.via = "transform_record"
    /\ Len(records[1]) = 1
    /\ InputOf(1, 1).t = "str"

\* C18 as stated: in the default pipeline a string equal, case-insensitively, to a
\* null sentinel comes out as null, in every letter case; "0" does not.
C18_SentinelsBecomeNull ==
    DefaultOnString =>
        /\ Lower(InputOf(1, 1).s) \in NullSentinels => OutputOf(1, 1) = NoneV
        /\ InputOf(1, 1).s = "0" => OutputOf(1, 1) # NoneV

\* C19 as stated: in the default pipeline a string that parses as a number comes
\* out as a number of the same value: an int when it has neither a decimal point
\* nor an exponent marker, a float otherwise.
C19_NumericStringsKeepTheirValue ==
    (/\ DefaultOnString
     /\ Lower(InputOf(1, 1).s) \notin NullSentinels
     /\ ParseFloat(InputOf(1, 1).s).kind = "ok") =>
        OutputOf(1, 1) =
            IF ~Contains(InputOf(1, 1).s, ".") /\ ~Contains(Lower(InputOf(1, 1).s), "e")
            THEN ParseInt(InputOf(1, 1).s).value
            ELSE ParseFloat(InputOf(1, 1).s).value

\* C20 as stated: in the default pipeline a string that is neither a null sentinel
\* nor parseable as a number comes out as exactly the same string.
C20_OtherStringsUnchanged ==
    (/\ DefaultOnString
     /\ Lower(InputOf(1, 1).s) \notin NullSentinels
     /\ ParseFloat(InputOf(1, 1).s).kind = "error") =>
        OutputOf(1, 1) = InputOf(1, 1)

(***************************************************************************)
(* C27                                                                     *)
(***************************************************************************)
\* A stored condition begins with a boolean operator
HasPrefix(c) == StartsWith(c, "AND ") \/ StartsWith(c, "OR ")

\* C27: in every reachable builder state, whatever where, and_where, or_where and
\* convenience calls produced it, every stored condition after the first begins
\* with `AND ` or `OR `; only the first one can be stored without such a prefix.
C27_LaterConditionsArePrefixed ==
    \A i \in 2..Len(qb.where_conditions) : HasPrefix(qb.where_conditions[i])

\* a convenience predicate appended to a list whose first element, stored by
\* where, has no prefix
C27_Witness ==
    /\ cmut \in ConvenienceCalls
    /\ Len(qb.where_conditions) = 2
    /\ ~HasPrefix(qb.where_conditions[1])
    /\ HasPrefix(qb.where_conditions[2])

(***************************************************************************)
(* C28                                                                     *)
(***************************************************************************)
\* C28: once the stored condition list is non-empty no builder operation makes it
\* empty again (where leaves one element, every other condition call leaves at least
\* as many as there were and at least one), and every successful build() after a
\* condition call contains a WHERE clause.
C28_ConditionsNeverEmptied ==
    [][/\ qb.where_conditions # <<>> => qb'.where_conditions # <<>>
       /\ cmut' = "where" /\ cmut' # cmut => Len(qb'.where_conditions) = 1
       /\ (cmut' # "" /\ qb'.where_conditions # qb.where_conditions) =>
             (cmut' = "where" \/ Len(qb'.where_conditions) = Len(qb.where_conditions) + 1)
       /\ (cmut' # "" /\ result'.kind = "ok" /\ result'.via = "build") =>
             /\ qb'.where_conditions # <<>>
             /\ Contains(result'.value, " FROM ps WHERE ")]_vars

\* a query was built from a list that where had cut back to one condition after
\* two had been stored
C28_Witness ==
    /\ cmut = "where"
    /\ prevLen = 2
    /\ Len(qb.where_conditions) = 1
    /\ result.kind = "ok"
    /\ result.via = "build"
    /\ Contains(result.value, " WHERE ")

(***************************************************************************)
(* C22                                                                     *)
(***************************************************************************)
\* The keys of a dict kept as its items
KeysOf(d) == { d[i][1] : i \in 1..Len(d) }

\* The value is an int or a float
IsNumber(v) == v.t \in {"int", "float"}

\* C22: transform_batch, in the default pipeline, on the two sample records
\* returns two records whose keys are the canonical names pl_name, pl_masse and
\* empty_field / null_field, whose pl_masse values are numbers and whose sentinel
\* fields empty_field and null_field are null.
C22_SampleBatch ==
    (/\ transform_rules = DataTransformer
     /\ records = <<SampleRecords[1], SampleRecords[2]>>
     /\ transformed.via = "transform_batch") =>
        /\ transformed.kind = "ok"
        /\ Len(transformed.value) = 2
        /\ KeysOf(transformed.value[1]) = {"pl_name", "pl_masse", "empty_field"}
        /\ KeysOf(transformed.value[2]) = {"pl_name", "pl_masse", "null_field"}
        /\ Len(transformed.value[1]) = 3
        /\ Len(transformed.value[2]) = 3
        /\ IsNumber(Lookup(transformed.value[1], "pl_masse"))
        /\ IsNumber(Lookup(transformed.value[2], "pl_masse"))
        /\ Lookup(transformed.value[1], "empty_field") = NoneV
        /\ Lookup(transformed.value[2], "null_field") = NoneV

\* transform_batch returned for the two sample records in the default pipeline
C22_Witness ==
    /\ transform_rules = DataTransformer
    /\ records = <<SampleRecords[1], SampleRecords[2]>>
    /\ records[1][1] = <<"PL_NAME", StrV("Kepler-442 b")>>
    /\ records[2][3] = <<"null_field", StrV("NULL")>>
    /\ transformed.via = "transform_batch"
    /\ transformed.kind = "ok"
    /\ Len(transformed.value) = 2

(***************************************************************************)
(* C21                                                                     *)
(***************************************************************************)
\* A canonical name: lower-case letters, digits and underscores, no underscore
\* at either end and no two in a row
IsCanonical(n) ==
    /\ \A i \in 1..Len(n) :
          \/ Contains(LowerAlpha, CharAt(n, i))
          \/ Contains(Digits, CharAt(n, i))
          \/ CharAt(n, i) = "_"
    /\ n # "" => CharAt(n, 1) # "_" /\ CharAt(n, Len(n)) # "_"
    /\ ~Contains(n, "__")

\* The name of field j of record k as passed
NameOf(k, j) == StrV(records[k][j][1])

\* C21: for every field name n of the records passed, n canonicalized is a
\* canonical name, canonicalizing it again returns it unchanged, and a name that
\* is canonical already is returned unchanged; "PL_NAME" and "pl__Name!" both give
\* "pl_name"; the keys of a returned record are these canonical names.
C21_CanonicalizationIsIdempotent ==
    /\ \A f \in Fields :
          /\ normalize_column_name(normalize_column_name(NameOf(f[1], f[2])))
                = normalize_column_name(NameOf(f[1], f[2]))
          /\ IsCanonical(normalize_column_name(NameOf(f[1], f[2])).s)
          /\ IsCanonical(NameOf(f[1], f[2]).s) =>
                normalize_column_name(NameOf(f[1], f[2])) = NameOf(f[1], f[2])
          /\ NameOf(f[1], f[2]).s \in {"PL_NAME", "pl__Name!"} =>
                normalize_column_name(NameOf(f[1], f[2])) = StrV("pl_name")
    /\ transformed.kind = "ok" =>
          \A k \in 1..Len(records) :
             /\ KeysOf(transformed.value[k]) = { KeyOf(k, j) : j \in 1..Len(records[k]) }
             /\ \A key \in KeysOf(transformed.value[k]) :
                   normalize_column_name(StrV(key)) = StrV(key)

\* a record was transformed that has the names "PL_NAME", "pl__Name!" and
\* "pl_name", one of them canonical already, and a record with a name that has
\* a run of three characters to replace
C21_Witness ==
    /\ transformed.kind = "ok"
    /\ \E k \in 1..Len(records) :
          /\ { records[k][j][1] : j \in 1..Len(records[k]) }
                = {"PL_NAME", "pl__Name!", "discoverymethod", "pl_name"}
          /\ KeysOf(transformed.value[k]) = {"pl_name", "discoverymethod"}
    /\ \E k \in 1..Len(records) : \E j \in 1..Len(records[k]) :
          /\ records[k][j][1] = "pl masse"
          /\ KeyOf(k, j) = "pl_masse"

(***************************************************************************)
(* C24                                                                     *)
(***************************************************************************)
\* a is the beginning of b
IsPrefix(a, b) == Len(a) <= Len(b) /\ SubSeq(b, 1, Len(a)) = a

\* C24: every step leaves the rules that were registered where they were and as
\* they were, new rules coming after them only (add_rule, add_unit_conversion,
\* add_date_parsing, add_categorical_mapping and the rule set of the NASA
\* transformer), so the three default rules stay first in their order; a
\* transform_record or transform_batch call leaves the rule list unchanged.
C24_RuleListOnlyAppended ==
    [][/\ IsPrefix(transform_rules, transform_rules')
       /\ SubSeq(transform_rules', 1, 3) = DataTransformer
       /\ transformed'.kind # "none" => transform_rules' = transform_rules]_vars

\* the rule set of the NASA transformer was registered after the default rules,
\* and a batch was transformed with it
C24_Witness ==
    /\ Len(transform_rules) = 11
    /\ SubSeq(transform_rules, 1, 3) = DataTransformer
    /\ transform_rules[6].transform_func = "map_categories#1"
    /\ transformed.kind = "ok"
    /\ transformed.via = "transform_batch"
    /\ Len(records) = 2

(***************************************************************************)
(* C25                                                                     *)
(***************************************************************************)
\* Rule i was registered by add_unit_conversion / by add_categorical_mapping
IsUnitConversion(i) == StartsWith(transform_rules[i].transform_func, "convert_units*")
IsCategoricalMapping(i) == StartsWith(transform_rules[i].transform_func, "map_categories#")

\* value * factor, the factor being the one rule i was registered with
TimesFactor(value, i) ==
    FloatV((MilliOf(value) * FactorOf(Drop(transform_rules[i].transform_func, 14)).num)
           \div FactorOf(Drop(transform_rules[i].transform_func, 14)).den)

\* C25 as stated: a rule registered by add_unit_conversion for a column fires on
\* fields of that canonical name only; it multiplies an int or float value by the
\* factor and returns every other value (a string, a boolean) and null unchanged.
C25_UnitConversion ==
    transformed.kind = "ok" =>
        \A f \in Fields :
            \A m \in 1..Len(CallsOf(f[1], f[2])) :
               IsUnitConversion(CallsOf(f[1], f[2])[m][1]) =>
                  /\ transform_rules[CallsOf(f[1], f[2])[m][1]].column = KeyOf(f[1], f[2])
                  /\ LeftBy(CallsOf(f[1], f[2]), m) =
                        IF CallsOf(f[1], f[2])[m][2].t \in {"int", "float"}
                        THEN TimesFactor(CallsOf(f[1], f[2])[m][2],
                                         CallsOf(f[1], f[2])[m][1])
                        ELSE CallsOf(f[1], f[2])[m][2]

(***************************************************************************)
(* C26                                                                     *)
(***************************************************************************)
\* The mapping rule i was registered with
MappingOf(i) ==
    CategoricalMappings[GroupValue(Drop(transform_rules[i].transform_func, 15))]

\* The mapped values of the string keys of a mapping that equal a string in lower
\* case / of the keys that equal it exactly
LowerMapped(mapping, v) ==
    { mapping[i][2] : i \in { n \in 1..Len(mapping) :
                                mapping[n][1].t = "str"
                                /\ Lower(mapping[n][1].s) = Lower(v.s) } }
ExactMapped(mapping, v) ==
    { mapping[i][2] : i \in { n \in 1..Len(mapping) : mapping[n][1] = v } }

\* C26: a rule registered by add_categorical_mapping, called with a string,
\* returns the mapped value of a string key that equals the string without regard
\* to letter case; when there is no such key, the mapped value of a key equal to
\* the string exactly; and the string unchanged when no key matches.
C26_CategoricalMapping ==
    transformed.kind = "ok" =>
        \A f \in Fields :
            \A m \in 1..Len(CallsOf(f[1], f[2])) :
               (/\ IsCategoricalMapping(CallsOf(f[1], f[2])[m][1])
                /\ CallsOf(f[1], f[2])[m][2].t = "str") =>
                  LET v == CallsOf(f[1], f[2])[m][2]
                      mapping == MappingOf(CallsOf(f[1], f[2])[m][1])
                      out == LeftBy(CallsOf(f[1], f[2]), m)
                  IN  IF LowerMapped(mapping, v) # {} THEN out \in LowerMapped(mapping, v)
                      ELSE IF ExactMapped(mapping, v) # {} THEN out \in ExactMapped(mapping, v)
                      ELSE out = v

\* a mapping rule was called with "imaging", which is no key of the mapping as it
\* is, and left "direct_imaging"; another call, with a string no key matches, left
\* the string as it was
C26_Witness ==
    /\ transformed.kind = "ok"
    /\ \E f \in Fields : \E m \in 1..Len(CallsOf(f[1], f[2])) :
          /\ IsCategoricalMapping(CallsOf(f[1], f[2])[m][1])
          /\ CallsOf(f[1], f[2])[m][2] = StrV("imaging")
          /\ ExactMapped(MappingOf(CallsOf(f[1], f[2])[m][1]), StrV("imaging")) = {}
          /\ LeftBy(CallsOf(f[1], f[2]), m) = StrV("direct_imaging")
    /\ \E f \in Fields : \E m \in 1..Len(CallsOf(f[1], f[2])) :
          /\ IsCategoricalMapping(CallsOf(f[1], f[2])[m][1])
          /\ CallsOf(f[1], f[2])[m][2].t = "str"
          /\ LowerMapped(MappingOf(CallsOf(f[1], f[2])[m][1]),
                         CallsOf(f[1], f[2])[m][2]) = {}
          /\ LeftBy(CallsOf(f[1], f[2]), m) = CallsOf(f[1], f[2])[m][2]

(***************************************************************************)
(* C29                                                                     *)
(***************************************************************************)
\* The fields of record k whose names canonicalize to the name of field j, and the
\* one of them that comes last in the record
Colliding(k, j) == { j2 \in 1..Len(records[k]) : KeyOf(k, j2) = KeyOf(k, j) }
LastColliding(k, j) ==
    CHOOSE j2 \in Colliding(k, j) : \A j3 \in Colliding(k, j) : j3 <= j2

\* The fold result of field j of record k, read off its log
FoldOf(k, j) ==
    IF CallsOf(k, j) = <<>> THEN InputOf(k, j)
    ELSE LeftBy(CallsOf(k, j), Len(CallsOf(k, j)))

\* After a transform call that returned, every canonical name of an input field is
\* the key of exactly one entry of the output record, and the entry holds the fold
\* result of the last colliding field
OneEntryPerName ==
    transformed.kind = "ok" =>
    \A k \in 1..Len(records) :
       /\ Len(transformed.value[k]) <= Len(records[k])
       /\ Cardinality(KeysOf(transformed.value[k])) = Len(transformed.value[k])
       /\ \A j \in 1..Len(records[k]) :
             /\ KeyOf(k, j) \in KeysOf(transformed.value[k])
             /\ OutputOf(k, j) = FoldOf(k, LastColliding(k, j))

\* C29: a transform call that returns leaves, for field names of one record that
\* canonicalize to the same name, a single entry under that name holding the fold
\* result of the colliding field that comes last; the output record has no more
\* keys than the input record; the input records are what they were.
C29_CollidingNamesKeepLast ==
    /\ []OneEntryPerName
    /\ [][transformed'.kind # "none" => records' = records]_vars

\* a record with three names that canonicalize to pl_name was transformed: the
\* output has two keys for four fields and pl_name holds the fold result of the
\* last of the three, which is not that of the first
C29_Witness ==
    /\ transformed.kind = "ok"
    /\ \E k \in 1..Len(records) :
          /\ Len(records[k]) = 4
          /\ Cardinality(Colliding(k, 1)) = 3
          /\ Len(transformed.value[k]) = 2
          /\ OutputOf(k, 1) = FoldOf(k, 4)
          /\ FoldOf(k, 4) # FoldOf(k, 1)
          /\ FoldOf(k, 4) # FoldOf(k, 2)

(***************************************************************************)
(* C30                                                                     *)
(***************************************************************************)
\* The rules whose selector is neither "*" nor a canonical name
NonCanonicalSelectors ==
    { i \in 1..Len(transform_rules) :
        transform_rules[i].column # "*" /\ ~IsCanonical(transform_rules[i].column) }

\* C30: no call of transform_func on any field of any record comes from a rule
\* whose column selector is neither "*" nor a canonical name.
C30_NonCanonicalSelectorNeverFires ==
    transformed.kind # "none" =>
        \A f \in Fields :
            \A m \in 1..Len(CallsOf(f[1], f[2])) :
               CallsOf(f[1], f[2])[m][1] \notin NonCanonicalSelectors

\* a rule with the selector "PL_MASSE" is registered and fields named PL_MASSE
\* and pl_masse were transformed: a unit conversion registered for pl_masse was
\* called on the field named PL_MASSE, the rule was not
C30_Witness ==
    /\ transformed.kind = "ok"
    /\ \E i \in NonCanonicalSelectors : transform_rules[i].column = "PL_MASSE"
    /\ \E f \in Fields :
          /\ records[f[1]][f[2]][1] = "PL_MASSE"
          /\ \E m \in 1..Len(CallsOf(f[1], f[2])) :
                /\ IsUnitConversion(CallsOf(f[1], f[2])[m][1])
                /\ transform_rules[CallsOf(f[1], f[2])[m][1]].column = "pl_masse"
    /\ \E f \in Fields : records[f[1]][f[2]][1] = "pl_masse"

(***************************************************************************)
(* C23                                                                     *)
(***************************************************************************)
\* transform_record applied to record k of the batch alone
Alone(k) == transform_record(transform_rules, records[k])

\* C23 as stated: the output of transform_batch has the length of the input, and
\* its i-th element is what transform_record returns for the i-th record alone,
\* whichever other records are in the batch.
C23_BatchIsPerRecord ==
    transformed.via = "transform_batch" =>
        /\ transformed.kind = "ok" => Len(transformed.value) = Len(records)
        /\ \A k \in 1..Len(records) :
              Alone(k).kind = "ok" =>
                 /\ transformed.kind = "ok"
                 /\ transformed.value[k] = Alone(k).value

====
